---- MODULE Spec2Model ----
(***************************************************************************)
(* Model of the goBeyondServer REST backend: the user controller           *)
(* (register, login, profile, password change, token refresh), the JWT     *)
(* helpers, the Google sign-in strategy and the mentor controller.         *)
(*                                                                         *)
(* Each request handler is one action that runs the whole handler against  *)
(* the store (the users and mentors tables) and records the request and    *)
(* the HTTP response it produced in the variable last.  The handlers that  *)
(* insert users are also given step by step, one action per store call,    *)
(* for the runs in which two requests are in flight at once.               *)
(*                                                                         *)
(* JavaScript values are tagged records, so that undefined, null, strings, *)
(* numbers and booleans can be compared with each other.  A string is the  *)
(* sequence of its characters; toLowerCase and trim work on characters.    *)
(* The createdAt/updatedAt columns are not modelled.                       *)
(***************************************************************************)
EXTENDS Naturals, Sequences, FiniteSets, TLC

VARIABLES
    users,          \* the users table: user id -> row
    mentors,        \* the mentors table: mentor id -> row
    nextUserId,     \* the users_id_seq sequence
    nextMentorId,   \* the mentors_id_seq sequence
    now,            \* the wall clock (new Date(), jwt iat), in days
    env,            \* process.env, fixed at start-up
    last,           \* the last request handled and its response
    inflight        \* per client, the request suspended at an await, if any

vars == <<users, mentors, nextUserId, nextMentorId, now, env, last, inflight>>

-----------------------------------------------------------------------------
(* JavaScript values *)

UNDEF == [t |-> "undefined"]
NULL == [t |-> "null"]
Str(s) == [t |-> "string", v |-> s]
Num(n) == [t |-> "number", v |-> n]
Bool(b) == [t |-> "boolean", v |-> b]

IsStr(x) == x.t = "string"

\* JavaScript truthiness: undefined, null, "", 0 and false are falsy.
Truthy(x) ==
    CASE x.t = "undefined" -> FALSE
      [] x.t = "null" -> FALSE
      [] x.t = "string" -> x.v # <<>>
      [] x.t = "number" -> x.v # 0
      [] x.t = "boolean" -> x.v
      [] OTHER -> TRUE

\* a || b
Or(a, b) == IF Truthy(a) THEN a ELSE b

UpperChars == <<"A", "B", "C", "D", "E", "F", "G", "H", "I", "J", "K", "L", "M",
                "N", "O", "P", "Q", "R", "S", "T", "U", "V", "W", "X", "Y", "Z">>
LowerChars == <<"a", "b", "c", "d", "e", "f", "g", "h", "i", "j", "k", "l", "m",
                "n", "o", "p", "q", "r", "s", "t", "u", "v", "w", "x", "y", "z">>
DigitChars == <<"0", "1", "2", "3", "4", "5", "6", "7", "8", "9">>

IsUpper(c) == \E i \in DOMAIN UpperChars : UpperChars[i] = c
IsLower(c) == \E i \in DOMAIN LowerChars : LowerChars[i] = c
IsDigit(c) == \E i \in DOMAIN DigitChars : DigitChars[i] = c

LowerChar(c) ==
    IF IsUpper(c)
    THEN LowerChars[CHOOSE i \in DOMAIN UpperChars : UpperChars[i] = c]
    ELSE c

\* String.prototype.toLowerCase
ToLowerCase(x) == Str([i \in DOMAIN x.v |-> LowerChar(x.v[i])])

RECURSIVE TrimLeft(_)
TrimLeft(s) == IF s # <<>> /\ Head(s) = " " THEN TrimLeft(Tail(s)) ELSE s

RECURSIVE TrimRight(_)
TrimRight(s) ==
    IF s # <<>> /\ s[Len(s)] = " " THEN TrimRight(SubSeq(s, 1, Len(s) - 1)) ELSE s

\* String.prototype.trim
Trim(x) == Str(TrimRight(TrimLeft(x.v)))

-----------------------------------------------------------------------------
(* bcryptjs *)

saltRounds == 12

Salts == {"salt1", "salt2"}

\* bcrypt.hash(password, saltRounds): a salted digest; the salt is drawn by
\* the library.  The digest is modelled as the pair it is a function of.
BcryptHash(password, rounds, salt) ==
    [t |-> "hash", rounds |-> rounds, salt |-> salt, of |-> password.v]

\* bcrypt.compare(s, hash) rejects when either argument is not a string
\* ("Illegal arguments"); a stored hash is a string, a NULL column is not.
BcryptCompareThrows(password, hash) == ~IsStr(password) \/ hash.t # "hash"

BcryptCompare(password, hash) == hash.of = password.v

-----------------------------------------------------------------------------
(* jsonwebtoken and utils/jwt.utils.js *)

AccessDays == 7
RefreshDays == 30

JWT_SECRET == "JWT_SECRET"
JWT_REFRESH_SECRET == "JWT_REFRESH_SECRET"

\* process.env.JWT_REFRESH_SECRET || process.env.JWT_SECRET
RefreshSecret == IF env.refreshSecretSet THEN JWT_REFRESH_SECRET ELSE JWT_SECRET

\* jwt.sign(payload, secret, {expiresIn})
JwtSign(payload, secret, days) ==
    [t |-> "jwt", payload |-> payload, key |-> secret, exp |-> now + days]

generateToken(userId) ==
    JwtSign([userId |-> userId, type |-> UNDEF], JWT_SECRET, AccessDays)

generateRefreshToken(userId) ==
    JwtSign([userId |-> userId, type |-> Str(<<"r", "e", "f", "r", "e", "s", "h">>)],
            RefreshSecret, RefreshDays)

\* A faulty verification: the expiry is not looked at.
JwtVerifyNoExpiry(token, secret) ==
    IF token.t # "jwt" \/ token.key # secret
    THEN [error |-> "JsonWebTokenError"]
    ELSE [error |-> "", decoded |-> token.payload]

\* A faulty verification: a token issued before the current instant is
\* treated as spent.
JwtVerifyFreshOnly(token, secret) ==
    IF token.t # "jwt" \/ token.key # secret
    THEN [error |-> "JsonWebTokenError"]
    ELSE IF now >= token.exp \/ token.exp \notin {now + AccessDays, now + RefreshDays}
    THEN [error |-> "TokenExpiredError"]
    ELSE [error |-> "", decoded |-> token.payload]

\* jwt.verify(token, secret): the decoded payload, or the name of the error
\* thrown.  The signature is checked before the expiry.
JwtVerify(token, secret) ==
    IF token.t # "jwt" \/ token.key # secret
    THEN [error |-> "JsonWebTokenError"]
    ELSE IF now >= token.exp
    THEN [error |-> "TokenExpiredError"]
    ELSE [error |-> "", decoded |-> token.payload]

-----------------------------------------------------------------------------
(* The store *)

NoRows == [i \in {} |-> NULL]

\* The most rows the users table holds in the model.
MaxUsers == 2

UserIds == DOMAIN users

\* prisma.user.findUnique({where: {email}})
UserByEmail(email) == {i \in UserIds : users[i].email = email}

\* prisma.user.create with the columns a handler does not set left NULL
NewUser(id, email, password, name) ==
    [id |-> id, email |-> email, password |-> password, name |-> name,
     firstName |-> NULL, lastName |-> NULL, image |-> NULL, birthdate |-> NULL,
     profession |-> NULL, googleId |-> NULL, lastActive |-> NULL]

Response(op, req, status, message, data) ==
    [op |-> op, req |-> req, status |-> status, message |-> message, data |-> data]

NoData == [none |-> TRUE]

StoreUnchanged == UNCHANGED <<users, mentors, nextUserId, nextMentorId>>

-----------------------------------------------------------------------------
(* controllers/user.controller.js *)

ValidationFailed == "Validation failed. Please check your input."
InternalError == "Internal server error"

\* A faulty look-up: the email compared as the client wrote it.
RegisterExistingUserExact(req) == UserByEmail(req.email)

\* register: the look-up of an existing user by the lower-cased email
RegisterExistingUser(req) == UserByEmail(ToLowerCase(req.email))

\* A faulty row: the email stored as the client wrote it.
RegisterNewUserAsTyped(id, req, salt) ==
    NewUser(id, req.email, BcryptHash(req.password, saltRounds, salt),
            Or(req.name, NULL))

\* register: the row inserted
RegisterNewUser(id, req, salt) ==
    NewUser(id, ToLowerCase(req.email), BcryptHash(req.password, saltRounds, salt),
            Or(req.name, NULL))

\* The token pair of a 201/200 response.
TokenPair(userId) ==
    [token |-> generateToken(userId), refreshToken |-> generateRefreshToken(userId)]

\* register: req = [errors, email, password, name]
Register(req, salt) ==
    /\ UNCHANGED <<now, env, inflight>>
    /\ IF req.errors
       THEN /\ StoreUnchanged
            /\ last' = Response("register", req, 400, ValidationFailed, NoData)
       ELSE IF RegisterExistingUser(req) # {}
       THEN /\ StoreUnchanged
            /\ last' = Response("register", req, 409, "User with this email already exists", NoData)
       ELSE LET user == RegisterNewUser(nextUserId, req, salt)
            IN /\ Cardinality(UserIds) < MaxUsers
               /\ users' = (user.id :> user) @@ users
               /\ nextUserId' = nextUserId + 1
               /\ UNCHANGED <<mentors, nextMentorId>>
               /\ last' = Response("register", req, 201, "User registered successfully",
                              [user |-> [id |-> user.id, email |-> user.email,
                                         name |-> user.name]] @@ TokenPair(user.id))

\* A faulty look-up: the email compared as the client wrote it.
LoginFindUserExact(req) == UserByEmail(req.email)

\* login: the look-up of the user by the lower-cased email
LoginFindUser(req) == UserByEmail(ToLowerCase(req.email))

\* login: req = [errors, email, password]; updateThrows tells whether the store
\* fails the update of lastActive (the rejection lands in the catch block)
LoginAttempt(req, updateThrows) ==
    /\ UNCHANGED <<mentors, nextUserId, nextMentorId, now, env, inflight>>
    /\ IF req.errors
       THEN /\ UNCHANGED users
            /\ last' = Response("login", req, 400, ValidationFailed, NoData)
       ELSE IF LoginFindUser(req) = {}
       THEN /\ UNCHANGED users
            /\ last' = Response("login", req, 401, "Invalid email or password", NoData)
       ELSE LET user == users[CHOOSE i \in LoginFindUser(req) : TRUE]
            IN IF BcryptCompareThrows(req.password, user.password)
               THEN /\ UNCHANGED users
                    /\ last' = Response("login", req, 500, InternalError, NoData)
               ELSE IF ~BcryptCompare(req.password, user.password)
               THEN /\ UNCHANGED users
                    /\ last' = Response("login", req, 401, "Invalid email or password", NoData)
               ELSE IF updateThrows
               THEN /\ UNCHANGED users
                    /\ last' = Response("login", req, 500, InternalError, NoData)
               ELSE /\ users' = [users EXCEPT ![user.id].lastActive = Num(now)]
                    /\ last' = Response("login", req, 200, "Login successful",
                                   [user |-> [id |-> user.id, email |-> user.email,
                                              name |-> user.name]] @@ TokenPair(user.id))

\* login against a store that serves every call
Login(req) == LoginAttempt(req, FALSE)

\* The fixed projection getProfile, updateProfile and deleteImage select.
ProfileOf(user) ==
    [id |-> user.id, email |-> user.email, name |-> user.name,
     firstName |-> user.firstName, lastName |-> user.lastName, image |-> user.image,
     birthdate |-> user.birthdate, profession |-> user.profession]

\* getProfile: req = [userId]
GetProfile(req) ==
    /\ UNCHANGED <<users, mentors, nextUserId, nextMentorId, now, env, inflight>>
    /\ IF req.userId \notin UserIds
       THEN last' = Response("getProfile", req, 404, "User not found", NoData)
       ELSE last' = Response("getProfile", req, 200, "",
                             [user |-> ProfileOf(users[req.userId])])

\* new Date(s) for a four-digit year string is the first instant of that year;
\* any other string of the model gives Invalid Date, which the store rejects.
IsYearString(x) == IsStr(x) /\ Len(x.v) = 4 /\ \A i \in 1..4 : IsDigit(x.v[i])

DigitValue(c) == (CHOOSE i \in DOMAIN DigitChars : DigitChars[i] = c) - 1

NewDate(x) ==
    IF IsYearString(x)
    THEN [t |-> "date", year |-> DigitValue(x.v[1]) * 1000 + DigitValue(x.v[2]) * 100
                                 + DigitValue(x.v[3]) * 10 + DigitValue(x.v[4])]
    ELSE [t |-> "invalid date"]

ProfileFields == {"firstName", "lastName", "birthdate", "profession", "name", "image"}

\* updateProfile: x.trim() throws a TypeError unless x is a string
TrimThrows(x) == ~IsStr(x)

\* A faulty updateData: a birthdate that is not supplied written as NULL.
ProfileUpdateDataNulling(body) ==
    [image |-> IF body.image = UNDEF THEN UNDEF
               ELSE IF body.image = NULL \/ body.image = Str(<<>>) THEN NULL
               ELSE Trim(body.image),
     firstName |-> IF body.firstName = UNDEF THEN UNDEF ELSE Trim(body.firstName),
     lastName |-> IF body.lastName = UNDEF THEN UNDEF ELSE Trim(body.lastName),
     birthdate |-> IF body.birthdate = UNDEF \/ body.birthdate = NULL
                      \/ body.birthdate = Str(<<>>)
                   THEN NULL ELSE NewDate(body.birthdate),
     profession |-> IF body.profession = UNDEF THEN UNDEF ELSE Trim(body.profession),
     name |-> IF body.name = UNDEF THEN UNDEF ELSE Trim(body.name)]

\* updateProfile: the updateData object; UNDEF stands for a key that is not set
ProfileUpdateData(body) ==
    [image |-> IF body.image = UNDEF THEN UNDEF
               ELSE IF body.image = NULL \/ body.image = Str(<<>>) THEN NULL
               ELSE Trim(body.image),
     firstName |-> IF body.firstName = UNDEF THEN UNDEF ELSE Trim(body.firstName),
     lastName |-> IF body.lastName = UNDEF THEN UNDEF ELSE Trim(body.lastName),
     birthdate |-> IF body.birthdate = UNDEF \/ body.birthdate = NULL
                      \/ body.birthdate = Str(<<>>)
                   THEN UNDEF ELSE NewDate(body.birthdate),
     profession |-> IF body.profession = UNDEF THEN UNDEF ELSE Trim(body.profession),
     name |-> IF body.name = UNDEF THEN UNDEF ELSE Trim(body.name)]

\* updateProfile: building updateData throws (a TypeError of trim)
ProfileUpdateThrows(body) ==
    \/ body.image # UNDEF /\ body.image # NULL /\ TrimThrows(body.image)
    \/ \E f \in {"firstName", "lastName", "profession", "name"} :
            body[f] # UNDEF /\ TrimThrows(body[f])

\* A faulty update: a key set to null is not written.
ApplyUpdateSkippingNull(row, data) ==
    [f \in DOMAIN row |->
        IF f \in DOMAIN data /\ data[f] # UNDEF /\ data[f] # NULL THEN data[f] ELSE row[f]]

\* prisma update: the row with the keys of data that are set written
ApplyUpdate(row, data) ==
    [f \in DOMAIN row |->
        IF f \in DOMAIN data /\ data[f] # UNDEF THEN data[f] ELSE row[f]]

\* updateProfile: the store and the response the handler ends with;
\* req = [errors, userId, body]
UpdateProfileOutcome(req) ==
    LET data == ProfileUpdateData(req.body)
        R(status, message, d) == Response("updateProfile", req, status, message, d)
    IN IF req.errors
       THEN [users |-> users, last |-> R(400, ValidationFailed, NoData)]
       ELSE IF ProfileUpdateThrows(req.body)
       THEN [users |-> users, last |-> R(500, InternalError, NoData)]
       ELSE IF \A f \in ProfileFields : data[f] = UNDEF
       THEN [users |-> users, last |-> R(400, "No fields to update", NoData)]
       ELSE IF req.userId \notin UserIds \/ data.birthdate.t = "invalid date"
       THEN [users |-> users, last |-> R(500, InternalError, NoData)]
       ELSE LET user == ApplyUpdate(users[req.userId], data)
            IN [users |-> [users EXCEPT ![req.userId] = user],
                last |-> R(200, "Profile updated successfully",
                           [user |-> ProfileOf(user)])]

UpdateProfile(req) ==
    /\ UNCHANGED <<mentors, nextUserId, nextMentorId, now, env, inflight>>
    /\ users' = UpdateProfileOutcome(req).users
    /\ last' = UpdateProfileOutcome(req).last

\* deleteImage: req = [userId]
DeleteImage(req) ==
    /\ UNCHANGED <<mentors, nextUserId, nextMentorId, now, env, inflight>>
    /\ IF req.userId \notin UserIds
       THEN /\ UNCHANGED users
            /\ last' = Response("deleteImage", req, 500, InternalError, NoData)
       ELSE LET user == ApplyUpdate(users[req.userId], [image |-> NULL])
            IN /\ users' = [users EXCEPT ![req.userId] = user]
               /\ last' = Response("deleteImage", req, 200, "Image deleted successfully",
                              [user |-> ProfileOf(user)])

\* A faulty hash: the current password hashed again.
ChangePasswordOldHash(req, salt) == BcryptHash(req.currentPassword, saltRounds, salt)

\* changePassword: the hash stored, bcrypt.hash(newPassword, saltRounds)
ChangePasswordNewHash(req, salt) == BcryptHash(req.newPassword, saltRounds, salt)

\* changePassword: req = [errors, userId, currentPassword, newPassword];
\* userId is req.user.id, set by the authentication middleware.
ChangePassword(req, salt) ==
    /\ UNCHANGED <<mentors, nextUserId, nextMentorId, now, env, inflight>>
    /\ IF req.errors
       THEN /\ UNCHANGED users
            /\ last' = Response("changePassword", req, 400, ValidationFailed, NoData)
       ELSE IF req.userId \notin UserIds
       THEN /\ UNCHANGED users
            /\ last' = Response("changePassword", req, 404, "User not found", NoData)
       ELSE LET user == users[req.userId]
            IN IF BcryptCompareThrows(req.currentPassword, user.password)
               THEN /\ UNCHANGED users
                    /\ last' = Response("changePassword", req, 500, InternalError, NoData)
               ELSE IF ~BcryptCompare(req.currentPassword, user.password)
               THEN /\ UNCHANGED users
                    /\ last' = Response("changePassword", req, 401, "Current password is incorrect", NoData)
               ELSE IF BcryptCompare(req.newPassword, user.password)
               THEN /\ UNCHANGED users
                    /\ last' = Response("changePassword", req, 400, "New password must be different from current password", NoData)
               ELSE /\ users' = [users EXCEPT ![req.userId].password =
                                     ChangePasswordNewHash(req, salt)]
                    /\ last' = Response("changePassword", req, 200, "Password changed successfully", NoData)

\* A faulty check: a token of any kind accepted.
RefreshKindAny(decoded) == TRUE

\* refreshToken: the check of the decoded token's kind
RefreshKindOk(decoded) == decoded.type = Str(<<"r", "e", "f", "r", "e", "s", "h">>)

\* refreshToken: req = [refreshToken]
RefreshToken(req) ==
    LET R(status, message, d) == Response("refreshToken", req, status, message, d)
        verified == JwtVerify(req.refreshToken, RefreshSecret)
    IN
    /\ UNCHANGED <<users, mentors, nextUserId, nextMentorId, now, env, inflight>>
    /\ IF ~Truthy(req.refreshToken)
       THEN last' = R(400, "Refresh token required", NoData)
       ELSE IF verified.error # ""
       THEN last' = R(403, "Invalid or expired refresh token", NoData)
       ELSE IF ~RefreshKindOk(verified.decoded)
       THEN last' = R(403, "Invalid refresh token", NoData)
       ELSE IF verified.decoded.userId \notin UserIds
       THEN last' = R(401, "User not found", NoData)
       ELSE last' = R(200, "", TokenPair(verified.decoded.userId))

-----------------------------------------------------------------------------
(* middleware/google.auth.middleware.js *)

\* A faulty look-up: no user is ever found by the Google id.
UserByGoogleIdNone(gid) == {}

\* prisma.user.findUnique({where: {googleId}})
UserByGoogleId(gid) == {i \in UserIds : users[i].googleId = gid}

\* The index of the first space of s, or 0.
FirstSpace(s) ==
    IF \E i \in DOMAIN s : s[i] = " "
    THEN CHOOSE i \in DOMAIN s : s[i] = " " /\ \A j \in 1..(i - 1) : s[j] # " "
    ELSE 0

\* nameParts[0] || null, for nameParts = displayName.split(' ')
FirstNameOf(displayName) ==
    IF ~Truthy(displayName) THEN NULL
    ELSE LET s == displayName.v
             k == FirstSpace(s)
         IN Or(Str(IF k = 0 THEN s ELSE SubSeq(s, 1, k - 1)), NULL)

\* nameParts.slice(1).join(' ') || null
LastNameOf(displayName) ==
    IF ~Truthy(displayName) THEN NULL
    ELSE LET s == displayName.v
             k == FirstSpace(s)
         IN Or(Str(IF k = 0 THEN <<>> ELSE SubSeq(s, k + 1, Len(s))), NULL)

\* A column written with undefined is left unset by the client library.
Column(x) == IF x = UNDEF THEN NULL ELSE x

\* A faulty address: a profile without one is given a placeholder.
GoogleEmailPlaceholder(profile) ==
    IF profile.emails # <<>> THEN profile.emails[1] ELSE Str(<<"x">>)

\* emails && emails[0] ? emails[0].value : null
GoogleEmail(profile) ==
    IF profile.emails # <<>> THEN profile.emails[1] ELSE NULL

\* The verify callback of the strategy.
\* profile = [id, displayName, emails, photos]; the outcome is done(error) or
\* done(null, user), recorded with status 0 (no HTTP response is sent here).
GoogleVerify(profile) ==
    LET email == GoogleEmail(profile)
        image == IF profile.photos # <<>> THEN profile.photos[1] ELSE NULL
    IN
    /\ UNCHANGED <<mentors, nextMentorId, now, env, inflight>>
    /\ IF ~Truthy(email)
       THEN /\ UNCHANGED <<users, nextUserId>>
            /\ last' = Response("google", profile, 0, "No email found in Google profile", NoData)
       ELSE IF UserByGoogleId(profile.id) # {}
       THEN LET id == CHOOSE i \in UserByGoogleId(profile.id) : TRUE
            IN /\ users' = [users EXCEPT ![id].lastActive = Num(now)]
               /\ UNCHANGED nextUserId
               /\ last' = Response("google", profile, 0, "done", [user |-> users[id]])
       ELSE IF UserByEmail(ToLowerCase(email)) # {}
       THEN LET id == CHOOSE i \in UserByEmail(ToLowerCase(email)) : TRUE
                linked == [users[id] EXCEPT !.googleId = profile.id,
                                            !.image = Or(image, users[id].image),
                                            !.lastActive = Num(now)]
            IN /\ users' = [users EXCEPT ![id] = linked]
               /\ UNCHANGED nextUserId
               /\ last' = Response("google", profile, 0, "done", [user |-> linked])
       ELSE LET id == nextUserId
                user == [NewUser(id, ToLowerCase(email), NULL, Column(profile.displayName))
                            EXCEPT !.googleId = profile.id,
                                   !.firstName = FirstNameOf(profile.displayName),
                                   !.lastName = LastNameOf(profile.displayName),
                                   !.image = image,
                                   !.lastActive = Num(now)]
            IN /\ Cardinality(UserIds) < MaxUsers
               /\ users' = (id :> user) @@ users
               /\ nextUserId' = nextUserId + 1
               /\ last' = Response("google", profile, 0, "done", [user |-> user])

-----------------------------------------------------------------------------
(* middleware/mentor.validation.middleware.js *)

\* The number of "@" in s.
RECURSIVE CountAt(_)
CountAt(s) == IF s = <<>> THEN 0
              ELSE (IF Head(s) = "@" THEN 1 ELSE 0) + CountAt(Tail(s))

\* The index of the last c in s, or 0.
LastIndexOf(s, c) ==
    IF \E i \in DOMAIN s : s[i] = c
    THEN CHOOSE i \in DOMAIN s : s[i] = c /\ \A j \in (i + 1)..Len(s) : s[j] # c
    ELSE 0

\* isEmail(): one "@", a local part, and a domain that ends in a top-level
\* label of two letters or more.
IsEmail(x) ==
    /\ IsStr(x)
    /\ CountAt(x.v) = 1
    /\ LET at == LastIndexOf(x.v, "@")
           dot == LastIndexOf(x.v, ".")
       IN /\ at > 1
          /\ dot > at + 1
          /\ Len(x.v) - dot >= 2
          /\ \A i \in (dot + 1)..Len(x.v) : IsUpper(x.v[i]) \/ IsLower(x.v[i])

\* normalizeEmail(): the address in lower case (no provider-specific rule
\* applies to the domains of the model).
NormalizeEmail(x) == IF IsEmail(x) THEN ToLowerCase(x) ELSE x

\* isLength({min: 8}) and matches(/^(?=.*[a-z])(?=.*[A-Z])(?=.*\d)/)
IsStrongPassword(x) ==
    /\ IsStr(x)
    /\ Len(x.v) >= 8
    /\ \E i \in DOMAIN x.v : IsLower(x.v[i])
    /\ \E i \in DOMAIN x.v : IsUpper(x.v[i])
    /\ \E i \in DOMAIN x.v : IsDigit(x.v[i])

\* A string of decimal digits.
IsDigits(x) == IsStr(x) /\ x.v # <<>> /\ \A i \in DOMAIN x.v : IsDigit(x.v[i])

RECURSIVE DigitsValue(_)
DigitsValue(s) ==
    IF s = <<>> THEN 0
    ELSE DigitsValue(SubSeq(s, 1, Len(s) - 1)) * 10 + DigitValue(s[Len(s)])

\* parseInt(x) and parseFloat(x) on the non-negative whole numbers of the model
ParseNumber(x) == IF x.t = "number" THEN x ELSE Num(DigitsValue(x.v))

\* isInt() and isFloat(): a number, or a string that reads as one
IsNumeric(x) == x.t = "number" \/ IsDigits(x)

\* The custom check of languages: every entry has the three strings.
IsLanguages(x) ==
    /\ x.t = "array"
    /\ \A i \in DOMAIN x.v :
          \A k \in {"code", "language", "level"} : IsStr(x.v[i][k]) /\ Truthy(x.v[i][k])

\* .optional(): a field that is undefined is not checked
Optional(x, ok) == x = UNDEF \/ ok

\* the .trim() sanitizer: the value as a string, trimmed (null reads as "")
Sanitized(x) == IF IsStr(x) THEN Trim(x) ELSE IF x = NULL THEN Str(<<>>) ELSE x

\* The body as the sanitizers of both chains leave it.
MentorSanitize(body) ==
    [f \in DOMAIN body |->
        IF f = "email" THEN NormalizeEmail(body[f])
        ELSE IF f \in {"name", "title", "bio", "timezone", "currency", "image"}
        THEN Sanitized(body[f])
        ELSE body[f]]

\* The checks the two chains share (on the sanitized body).
MentorFieldsValid(b) ==
    /\ Optional(b.bio, IsStr(b.bio) /\ Len(b.bio.v) <= 2000)
    /\ Optional(b.yearsOfExperience,
                IsNumeric(b.yearsOfExperience)
                /\ ParseNumber(b.yearsOfExperience).v <= 100)
    /\ Optional(b.timezone, IsStr(b.timezone) /\ Len(b.timezone.v) <= 100)
    /\ Optional(b.hourlyRate, IsNumeric(b.hourlyRate))
    /\ Optional(b.currency,
                IsStr(b.currency) /\ Len(b.currency.v) >= 3 /\ Len(b.currency.v) <= 10)
    /\ Optional(b.image, IsStr(b.image) /\ Len(b.image.v) <= 500)
    /\ Optional(b.languages, IsLanguages(b.languages))
    /\ Optional(b.isApproved, b.isApproved.t = "boolean")
    /\ Optional(b.isActive, b.isActive.t = "boolean")

TitleValid(title) == IsStr(title) /\ Len(title.v) >= 3 /\ Len(title.v) <= 255

\* createMentorValidation: body is the sanitized body
CreateMentorValid(raw, body) ==
    /\ IsEmail(raw.email)
    /\ IsStrongPassword(body.password)
    /\ Optional(body.name,
                IsStr(body.name) /\ Len(body.name.v) >= 2 /\ Len(body.name.v) <= 100)
    /\ Truthy(raw.title) /\ TitleValid(body.title)
    /\ MentorFieldsValid(body)

\* updateMentorValidation
UpdateMentorValid(body) ==
    /\ Optional(body.title, TitleValid(body.title))
    /\ MentorFieldsValid(body)

-----------------------------------------------------------------------------
(* controllers/mentor.controller.js *)

MentorIds == DOMAIN mentors

\* A faulty look-up: the mentors of every user.
MentorOfAnyUser(userId) == MentorIds

\* prisma.mentor.findUnique({where: {userId}})
MentorByUserId(userId) == {m \in MentorIds : mentors[m].userId = userId}

\* x ? f(x) : null
IfTruthy(x, fx) == IF Truthy(x) THEN fx ELSE NULL

\* A faulty row: the first user is made the owner of every mentor.
CreateMentorRowFirstOwner(id, userId, b) ==
    [id |-> id, userId |-> 1,
     title |-> Trim(b.title),
     bio |-> IfTruthy(b.bio, Trim(b.bio)),
     image |-> IF Truthy(b.image) /\ Trim(b.image) # Str(<<>>) THEN Trim(b.image) ELSE NULL,
     yearsOfExperience |-> IfTruthy(b.yearsOfExperience, ParseNumber(b.yearsOfExperience)),
     timezone |-> IfTruthy(b.timezone, Trim(b.timezone)),
     hourlyRate |-> IfTruthy(b.hourlyRate, ParseNumber(b.hourlyRate)),
     currency |-> IfTruthy(b.currency, Trim(b.currency)),
     languages |-> Or(b.languages, NULL),
     isApproved |-> IF b.isApproved # UNDEF THEN b.isApproved ELSE Bool(FALSE),
     isActive |-> IF b.isActive # UNDEF THEN b.isActive ELSE Bool(TRUE)]

\* createMentor: the mentor row inserted for the new user
CreateMentorRow(id, userId, b) ==
    [id |-> id, userId |-> userId,
     title |-> Trim(b.title),
     bio |-> IfTruthy(b.bio, Trim(b.bio)),
     image |-> IF Truthy(b.image) /\ Trim(b.image) # Str(<<>>) THEN Trim(b.image) ELSE NULL,
     yearsOfExperience |-> IfTruthy(b.yearsOfExperience, ParseNumber(b.yearsOfExperience)),
     timezone |-> IfTruthy(b.timezone, Trim(b.timezone)),
     hourlyRate |-> IfTruthy(b.hourlyRate, ParseNumber(b.hourlyRate)),
     currency |-> IfTruthy(b.currency, Trim(b.currency)),
     languages |-> Or(b.languages, NULL),
     isApproved |-> IF b.isApproved # UNDEF THEN b.isApproved ELSE Bool(FALSE),
     isActive |-> IF b.isActive # UNDEF THEN b.isActive ELSE Bool(TRUE)]

\* A faulty join: the owner's whole row.
PublicUserRow(user) == user

\* The owner's public fields joined to a mentor.
PublicUser(user) ==
    [id |-> user.id, email |-> user.email, name |-> user.name,
     firstName |-> user.firstName, lastName |-> user.lastName, image |-> user.image,
     profession |-> user.profession]

\* formattedMentor: the row (a stored rate is a Decimal object, read back with
\* parseFloat; a NULL rate stays null) with the owner joined
FormatMentor(mentor, user) == mentor @@ [user |-> PublicUser(user)]

\* A faulty look-up: no user is ever found.
CreateMentorExistingUserNone(body) == {}

\* createMentor: the look-up of an existing user by the lower-cased email
CreateMentorExistingUser(body) == UserByEmail(ToLowerCase(body.email))

\* createMentor: req = [body], the body as the client sent it
CreateMentor(req, salt) ==
    LET body == MentorSanitize(req.body)
        R(status, message, d) == Response("createMentor", req, status, message, d)
    IN
    /\ UNCHANGED <<now, env, inflight>>
    /\ IF ~CreateMentorValid(req.body, body)
       THEN /\ StoreUnchanged
            /\ last' = R(400, ValidationFailed, NoData)
       ELSE IF CreateMentorExistingUser(body) # {}
       THEN /\ StoreUnchanged
            /\ last' = R(409, "User with this email already exists", NoData)
       ELSE LET user == NewUser(nextUserId, ToLowerCase(body.email),
                                BcryptHash(body.password, saltRounds, salt),
                                Or(body.name, NULL))
                mentor == CreateMentorRow(nextMentorId, user.id, body)
            IN /\ Cardinality(UserIds) < MaxUsers
               /\ users' = (user.id :> user) @@ users
               /\ mentors' = (mentor.id :> mentor) @@ mentors
               /\ nextUserId' = nextUserId + 1
               /\ nextMentorId' = nextMentorId + 1
               /\ last' = R(201, "Mentor profile and user account created successfully",
                            [user |-> PublicUser(user),
                             mentor |-> FormatMentor(mentor, user)] @@ TokenPair(user.id))

MentorWritable == {"title", "bio", "image", "yearsOfExperience", "timezone",
                   "hourlyRate", "currency", "languages", "isActive"}

\* A faulty updateData: isApproved written as the caller supplied it.
MentorUpdateDataApproving(b) ==
    [title |-> IF b.title = UNDEF THEN UNDEF ELSE Trim(b.title),
     bio |-> IF b.bio = UNDEF THEN UNDEF ELSE IfTruthy(b.bio, Trim(b.bio)),
     image |-> IF b.image = UNDEF THEN UNDEF
               ELSE IF b.image = NULL \/ b.image = Str(<<>>) THEN NULL
               ELSE Trim(b.image),
     yearsOfExperience |->
        IF b.yearsOfExperience = UNDEF THEN UNDEF
        ELSE IfTruthy(b.yearsOfExperience, ParseNumber(b.yearsOfExperience)),
     timezone |-> IF b.timezone = UNDEF THEN UNDEF
                  ELSE IfTruthy(b.timezone, Trim(b.timezone)),
     hourlyRate |-> IF b.hourlyRate = UNDEF THEN UNDEF
                    ELSE IfTruthy(b.hourlyRate, ParseNumber(b.hourlyRate)),
     currency |-> IF b.currency = UNDEF THEN UNDEF
                  ELSE IfTruthy(b.currency, Trim(b.currency)),
     languages |-> b.languages,
     isActive |-> b.isActive,
     isApproved |-> b.isApproved]

\* updateMentor: the updateData object; UNDEF stands for a key that is not set
MentorUpdateData(b) ==
    [title |-> IF b.title = UNDEF THEN UNDEF ELSE Trim(b.title),
     bio |-> IF b.bio = UNDEF THEN UNDEF ELSE IfTruthy(b.bio, Trim(b.bio)),
     image |-> IF b.image = UNDEF THEN UNDEF
               ELSE IF b.image = NULL \/ b.image = Str(<<>>) THEN NULL
               ELSE Trim(b.image),
     yearsOfExperience |->
        IF b.yearsOfExperience = UNDEF THEN UNDEF
        ELSE IfTruthy(b.yearsOfExperience, ParseNumber(b.yearsOfExperience)),
     timezone |-> IF b.timezone = UNDEF THEN UNDEF
                  ELSE IfTruthy(b.timezone, Trim(b.timezone)),
     hourlyRate |-> IF b.hourlyRate = UNDEF THEN UNDEF
                    ELSE IfTruthy(b.hourlyRate, ParseNumber(b.hourlyRate)),
     currency |-> IF b.currency = UNDEF THEN UNDEF
                  ELSE IfTruthy(b.currency, Trim(b.currency)),
     languages |-> b.languages,
     isActive |-> b.isActive]

\* A faulty check: every caller passes as the owner.
MentorOwnedByAnyone(mentor, userId) == TRUE

\* updateMentor: the ownership check
MentorOwnedBy(mentor, userId) == mentor.userId = userId

\* updateMentor: the store and the response the handler ends with;
\* req = [id, userId, body], userId being req.user.id
UpdateMentorOutcome(req) ==
    LET body == MentorSanitize(req.body)
        R(status, message, d) == Response("updateMentor", req, status, message, d)
    IN IF ~UpdateMentorValid(body)
       THEN [mentors |-> mentors, last |-> R(400, ValidationFailed, NoData)]
       ELSE IF req.id \notin MentorIds
       THEN [mentors |-> mentors, last |-> R(404, "Mentor not found", NoData)]
       ELSE IF ~MentorOwnedBy(mentors[req.id], req.userId)
       THEN [mentors |-> mentors,
             last |-> R(403, "You do not have permission to update this mentor profile", NoData)]
       ELSE LET mentor == ApplyUpdate(mentors[req.id], MentorUpdateData(body))
            IN [mentors |-> [mentors EXCEPT ![req.id] = mentor],
                last |-> R(200, "Mentor profile updated successfully",
                           [mentor |-> FormatMentor(mentor, users[mentor.userId])])]

UpdateMentor(req) ==
    /\ UNCHANGED <<users, nextUserId, nextMentorId, now, env, inflight>>
    /\ mentors' = UpdateMentorOutcome(req).mentors
    /\ last' = UpdateMentorOutcome(req).last

\* A function without the argument k.
Without(f, k) == [x \in DOMAIN f \ {k} |-> f[x]]

\* deleteMentor: req = [id, userId]
DeleteMentor(req) ==
    LET R(status, message) == Response("deleteMentor", req, status, message, NoData)
    IN
    /\ UNCHANGED <<users, nextUserId, nextMentorId, now, env, inflight>>
    /\ IF req.id \notin MentorIds
       THEN /\ UNCHANGED mentors
            /\ last' = R(404, "Mentor not found")
       ELSE IF ~MentorOwnedBy(mentors[req.id], req.userId)
       THEN /\ UNCHANGED mentors
            /\ last' = R(403, "You do not have permission to delete this mentor profile")
       ELSE /\ mentors' = Without(mentors, req.id)
            /\ last' = R(200, "Mentor profile deleted successfully")

\* deleteMentorImage: req = [userId]
DeleteMentorImage(req) ==
    LET R(status, message) == Response("deleteMentorImage", req, status, message, NoData)
    IN
    /\ UNCHANGED <<users, nextUserId, nextMentorId, now, env, inflight>>
    /\ IF MentorByUserId(req.userId) = {}
       THEN /\ UNCHANGED mentors
            /\ last' = R(404, "Mentor profile not found")
       ELSE LET id == CHOOSE m \in MentorByUserId(req.userId) : TRUE
            IN IF ~Truthy(mentors[id].image)
               THEN /\ UNCHANGED mentors
                    /\ last' = R(400, "No image to delete")
               ELSE /\ mentors' = [mentors EXCEPT ![id].image = NULL]
                    /\ last' = R(200, "Mentor image deleted successfully")

\* 'true' as a query string
TrueString == Str(<<"t", "r", "u", "e">>)

\* {contains: part, mode: 'insensitive'}: part occurs in text, ignoring case
ContainsInsensitive(text, part) ==
    /\ IsStr(text)
    /\ \E i \in 0..(Len(text.v) - Len(part.v)) :
          ToLowerCase(Str(SubSeq(text.v, i + 1, i + Len(part.v)))) = ToLowerCase(part)

\* getAllMentors: the where clause of findMany (the rates of the query are
\* strings of digits; a NULL rate is in no range)
MentorWhere(mentor, q) ==
    /\ q.isApproved = UNDEF \/ mentor.isApproved = Bool(q.isApproved = TrueString)
    /\ q.isActive = UNDEF \/ mentor.isActive = Bool(q.isActive = TrueString)
    /\ \/ q.minRate = UNDEF /\ q.maxRate = UNDEF
       \/ /\ mentor.hourlyRate # NULL
          /\ q.minRate = UNDEF \/ mentor.hourlyRate.v >= ParseNumber(q.minRate).v
          /\ q.maxRate = UNDEF \/ mentor.hourlyRate.v =< ParseNumber(q.maxRate).v
    /\ \/ ~Truthy(q.search)
       \/ ContainsInsensitive(mentor.title, q.search)
       \/ ContainsInsensitive(mentor.bio, q.search)

\* A faulty filter: the code compared ignoring case too.
MentorSpeaksAnyCase(mentor, language) ==
    /\ Truthy(mentor.languages) /\ mentor.languages.t = "array"
    /\ \E i \in DOMAIN mentor.languages.v :
          \/ ToLowerCase(mentor.languages.v[i].code) = ToLowerCase(language)
          \/ ToLowerCase(mentor.languages.v[i].language) = ToLowerCase(language)

\* getAllMentors: the language filter applied to the rows fetched
MentorSpeaks(mentor, language) ==
    /\ Truthy(mentor.languages) /\ mentor.languages.t = "array"
    /\ \E i \in DOMAIN mentor.languages.v :
          \/ mentor.languages.v[i].code = language
          \/ ToLowerCase(mentor.languages.v[i].language) = ToLowerCase(language)

\* orderBy createdAt desc: the ids, the last created first
RECURSIVE Descending(_)
Descending(S) ==
    IF S = {} THEN <<>>
    ELSE LET m == CHOOSE x \in S : \A y \in S : y =< x
         IN <<m>> \o Descending(S \ {m})

\* getAllMentors: the ids of the mentors listed for query q, in order
MentorsListed(q) ==
    LET rows == {m \in MentorIds : MentorWhere(mentors[m], q)}
    IN Descending(IF Truthy(q.language)
                  THEN {m \in rows : MentorSpeaks(mentors[m], q.language)}
                  ELSE rows)

\* getAllMentors: req = [query]
GetAllMentors(req) ==
    LET ids == MentorsListed(req.query)
        list == [i \in DOMAIN ids |->
                    FormatMentor(mentors[ids[i]], users[mentors[ids[i]].userId])]
    IN
    /\ UNCHANGED <<users, mentors, nextUserId, nextMentorId, now, env, inflight>>
    /\ last' = Response("getAllMentors", req, 200, "Found mentor(s)",
                        [mentors |-> list, count |-> Len(list)])

\* getMentorById, getMentorByUserId and getMyMentorProfile: the response for
\* the rows found
MentorFound(op, req, found, missing) ==
    /\ UNCHANGED <<users, mentors, nextUserId, nextMentorId, now, env, inflight>>
    /\ IF found = {}
       THEN last' = Response(op, req, 404, missing, NoData)
       ELSE LET mentor == mentors[CHOOSE m \in found : TRUE]
            IN last' = Response(op, req, 200, "",
                                [mentor |-> FormatMentor(mentor, users[mentor.userId])])

\* getMentorById: req = [id]
GetMentorById(req) ==
    MentorFound("getMentorById", req, MentorIds \cap {req.id}, "Mentor not found")

\* getMentorByUserId: req = [userId]
GetMentorByUserId(req) ==
    MentorFound("getMentorByUserId", req, MentorByUserId(req.userId),
                "Mentor not found")

\* getMyMentorProfile: req = [userId], userId being req.user.id
GetMyMentorProfile(req) ==
    MentorFound("getMyMentorProfile", req, MentorByUserId(req.userId),
                "You do not have a mentor profile yet")

-----------------------------------------------------------------------------
(* Requests in flight together *)

\* The connections of two clients, each with at most one request in flight.
Clients == {"a", "b"}
Idle == [op |-> "idle"]

Suspend(c, slot) == inflight' = [inflight EXCEPT ![c] = slot]
Finish(c) == inflight' = [inflight EXCEPT ![c] = Idle]

\* The unique index on users.email refuses a second row with the address.
EmailTaken(email) == UserByEmail(email) # {}

\* The partial unique index users_google_id_key refuses a Google id another
\* row holds.
GoogleIdTaken(gid, id) == \E i \in UserIds \ {id} : users[i].googleId = gid

\* The user row client c has inserted in a transaction not yet committed.
Uncommitted(c) ==
    IF inflight[c].op = "createMentor" /\ inflight[c].pc = "mentor"
    THEN {inflight[c].user} ELSE {}

\* An insert or update of the address by client c waits while the open
\* transaction of another client holds a row with it.
Waits(c, email) ==
    \E d \in Clients \ {c} : \E row \in Uncommitted(d) : row.email = email

\* register up to the await of prisma.user.create
RegisterCheck(c, req) ==
    /\ inflight[c] = Idle
    /\ UNCHANGED <<users, mentors, nextUserId, nextMentorId, now, env>>
    /\ IF req.errors
       THEN /\ UNCHANGED inflight
            /\ last' = Response("register", req, 400, ValidationFailed, NoData)
       ELSE IF RegisterExistingUser(req) # {}
       THEN /\ UNCHANGED inflight
            /\ last' = Response("register", req, 409, "User with this email already exists", NoData)
       ELSE /\ Suspend(c, [op |-> "register", req |-> req])
            /\ UNCHANGED last

\* register from prisma.user.create on: the insert the store refuses throws
\* into the catch block
RegisterInsert(c, salt) ==
    /\ inflight[c].op = "register"
    /\ LET req == inflight[c].req
           user == RegisterNewUser(nextUserId, req, salt)
       IN /\ ~Waits(c, user.email)
          /\ Finish(c)
          /\ UNCHANGED <<mentors, nextMentorId, now, env>>
          /\ IF EmailTaken(user.email)
             THEN /\ UNCHANGED <<users, nextUserId>>
                  /\ last' = Response("register", req, 500, InternalError, NoData)
             ELSE /\ nextUserId <= MaxUsers
                  /\ users' = (user.id :> user) @@ users
                  /\ nextUserId' = nextUserId + 1
                  /\ last' = Response("register", req, 201, "User registered successfully",
                                 [user |-> [id |-> user.id, email |-> user.email,
                                            name |-> user.name]] @@ TokenPair(user.id))

\* A faulty insert: prisma.user.create outside the transaction, its row in
\* the table at once.
PlainUserCreate(rows, row) == (row.id :> row) @@ rows

\* tx.user.create inside prisma.$transaction: the row is written in the
\* transaction, and the table the other connections read is as before.
TxUserCreate(rows, row) == rows

\* createMentor up to prisma.$transaction
CreateMentorCheck(c, req) ==
    LET body == MentorSanitize(req.body)
        R(status, message) == Response("createMentor", req, status, message, NoData)
    IN
    /\ inflight[c] = Idle
    /\ UNCHANGED <<users, mentors, nextUserId, nextMentorId, now, env>>
    /\ IF ~CreateMentorValid(req.body, body)
       THEN /\ UNCHANGED inflight
            /\ last' = R(400, ValidationFailed)
       ELSE IF CreateMentorExistingUser(body) # {}
       THEN /\ UNCHANGED inflight
            /\ last' = R(409, "User with this email already exists")
       ELSE /\ Suspend(c, [op |-> "createMentor", pc |-> "user", req |-> req])
            /\ UNCHANGED last

\* createMentor: tx.user.create.  The id drawn from the sequence is not given
\* back when the transaction rolls back.
CreateMentorInsertUser(c, salt) ==
    /\ inflight[c].op = "createMentor" /\ inflight[c].pc = "user"
    /\ LET req == inflight[c].req
           body == MentorSanitize(req.body)
           user == NewUser(nextUserId, ToLowerCase(body.email),
                           BcryptHash(body.password, saltRounds, salt),
                           Or(body.name, NULL))
       IN /\ ~Waits(c, user.email)
          /\ UNCHANGED <<mentors, nextMentorId, now, env>>
          /\ IF EmailTaken(user.email)
             THEN /\ Finish(c)
                  /\ UNCHANGED <<users, nextUserId>>
                  /\ last' = Response("createMentor", req, 500, InternalError, NoData)
             ELSE /\ nextUserId <= MaxUsers
                  /\ users' = TxUserCreate(users, user)
                  /\ nextUserId' = nextUserId + 1
                  /\ Suspend(c, [op |-> "createMentor", pc |-> "mentor", req |-> req,
                                 user |-> user])
                  /\ UNCHANGED last

\* createMentor: tx.mentor.create and the end of the transaction.  Either the
\* store refuses the insert, the transaction rolls back and the catch block
\* answers, or both rows are committed and the handler answers 201.
CreateMentorInsertMentor(c) ==
    /\ inflight[c].op = "createMentor" /\ inflight[c].pc = "mentor"
    /\ LET req == inflight[c].req
           user == inflight[c].user
           mentor == CreateMentorRow(nextMentorId, user.id, MentorSanitize(req.body))
       IN /\ Finish(c)
          /\ UNCHANGED <<nextUserId, now, env>>
          /\ \/ /\ UNCHANGED <<users, mentors, nextMentorId>>
                /\ last' = Response("createMentor", req, 500, InternalError, NoData)
             \/ /\ users' = (user.id :> user) @@ users
                /\ mentors' = (mentor.id :> mentor) @@ mentors
                /\ nextMentorId' = nextMentorId + 1
                /\ last' = Response("createMentor", req, 201,
                                    "Mentor profile and user account created successfully",
                                    [user |-> PublicUser(user),
                                     mentor |-> FormatMentor(mentor, user)]
                                        @@ TokenPair(user.id))

GoogleDone(profile, user) == Response("google", profile, 0, "done", [user |-> user])
GoogleError(profile) == Response("google", profile, 0, "error", NoData)

\* The verify callback up to the first update or the second look-up.
GoogleFindById(c, profile) ==
    /\ inflight[c] = Idle
    /\ UNCHANGED <<users, mentors, nextUserId, nextMentorId, now, env>>
    /\ IF profile.emails = <<>> \/ ~Truthy(profile.emails[1])
       THEN /\ UNCHANGED inflight
            /\ last' = Response("google", profile, 0, "No email found in Google profile", NoData)
       ELSE /\ UNCHANGED last
            /\ IF UserByGoogleId(profile.id) # {}
               THEN Suspend(c, [op |-> "google", pc |-> "touch", profile |-> profile,
                                user |-> users[CHOOSE i \in UserByGoogleId(profile.id) : TRUE]])
               ELSE Suspend(c, [op |-> "google", pc |-> "byEmail", profile |-> profile])

\* The verify callback: the update of lastActive of the user found by id.
GoogleTouch(c) ==
    /\ inflight[c].op = "google" /\ inflight[c].pc = "touch"
    /\ LET user == inflight[c].user
       IN /\ users' = [users EXCEPT ![user.id].lastActive = Num(now)]
          /\ last' = GoogleDone(inflight[c].profile, user)
    /\ Finish(c)
    /\ UNCHANGED <<mentors, nextUserId, nextMentorId, now, env>>

\* The verify callback: the look-up by the lower-cased address.
GoogleFindByEmail(c) ==
    /\ inflight[c].op = "google" /\ inflight[c].pc = "byEmail"
    /\ UNCHANGED <<users, mentors, nextUserId, nextMentorId, now, env, last>>
    /\ LET profile == inflight[c].profile
           found == UserByEmail(ToLowerCase(profile.emails[1]))
       IN IF found # {}
          THEN Suspend(c, [op |-> "google", pc |-> "link", profile |-> profile,
                           user |-> users[CHOOSE i \in found : TRUE]])
          ELSE Suspend(c, [op |-> "google", pc |-> "create", profile |-> profile])

\* The verify callback: the update that links the user read by address.
GoogleLink(c) ==
    /\ inflight[c].op = "google" /\ inflight[c].pc = "link"
    /\ Finish(c)
    /\ UNCHANGED <<mentors, nextUserId, nextMentorId, now, env>>
    /\ LET profile == inflight[c].profile
           user == inflight[c].user
           image == IF profile.photos # <<>> THEN profile.photos[1] ELSE NULL
           linked == [users[user.id] EXCEPT !.googleId = profile.id,
                                            !.image = Or(image, user.image),
                                            !.lastActive = Num(now)]
       IN IF GoogleIdTaken(profile.id, user.id)
          THEN /\ UNCHANGED users
               /\ last' = GoogleError(profile)
          ELSE /\ users' = [users EXCEPT ![user.id] = linked]
               /\ last' = GoogleDone(profile, linked)

\* The verify callback: the insert of a user for the profile.
GoogleCreate(c) ==
    /\ inflight[c].op = "google" /\ inflight[c].pc = "create"
    /\ LET profile == inflight[c].profile
           image == IF profile.photos # <<>> THEN profile.photos[1] ELSE NULL
           user == [NewUser(nextUserId, ToLowerCase(profile.emails[1]), NULL,
                            Column(profile.displayName))
                       EXCEPT !.googleId = profile.id,
                              !.firstName = FirstNameOf(profile.displayName),
                              !.lastName = LastNameOf(profile.displayName),
                              !.image = image,
                              !.lastActive = Num(now)]
       IN /\ ~Waits(c, user.email)
          /\ Finish(c)
          /\ UNCHANGED <<mentors, nextMentorId, now, env>>
          /\ IF EmailTaken(user.email) \/ GoogleIdTaken(profile.id, 0)
             THEN /\ UNCHANGED <<users, nextUserId>>
                  /\ last' = GoogleError(profile)
             ELSE /\ nextUserId <= MaxUsers
                  /\ users' = (user.id :> user) @@ users
                  /\ nextUserId' = nextUserId + 1
                  /\ last' = GoogleDone(profile, user)

-----------------------------------------------------------------------------
(* Requests *)

EmailLower == Str(<<"a", "@", "b", ".", "i", "o">>)
EmailUpper == Str(<<"A", "@", "B", ".", "i", "o">>)
EmailOther == Str(<<"c", "@", "D", ".", "i", "o">>)
EmailThird == Str(<<"e", "@", "f", ".", "i", "o">>)
Emails == {EmailLower, EmailUpper, EmailOther}

Passw0rd == Str(<<"P", "a", "s", "s", "w", "0", "r", "d">>)
Secret99 == Str(<<"S", "e", "c", "r", "e", "t", "9", "9">>)
Passwords == {Passw0rd, Secret99}

\* A password the validation layer rejects.
Weak == Str(<<"w", "e", "a", "k">>)

Ann == Str(<<"A", "n", "n">>)

\* A registration under the upper-case address, with a name.
AnnRegisters ==
    [errors |-> FALSE, email |-> EmailUpper, password |-> Passw0rd, name |-> Ann]

\* A registration without a name.
PlainRegisters ==
    [errors |-> FALSE, email |-> EmailOther, password |-> Passw0rd, name |-> UNDEF]

RegisterRequests ==
    [errors : {FALSE}, email : Emails, password : Passwords, name : {UNDEF}]
    \cup [errors : {TRUE}, email : {EmailLower}, password : {Weak}, name : {UNDEF}]

LoginRequests ==
    [errors : {FALSE}, email : Emails \cup {EmailThird}, password : Passwords]
    \cup [errors : {TRUE}, email : {EmailLower}, password : {Str(<<>>)}]

\* The logins of the first account, with the right and a wrong password.
AnnLogins == [errors : {FALSE}, email : {EmailLower}, password : Passwords]

\* req.user.id: the ids of the rows the table can hold, and one more.
AuthIds == 1..(MaxUsers + 1)

ChangePasswordRequests ==
    [errors : {FALSE}, userId : AuthIds, currentPassword : Passwords,
     newPassword : Passwords]
    \cup [errors : {TRUE}, userId : {1}, currentPassword : {Passw0rd},
          newPassword : {Weak}]

Photo == Str(<<"p">>)

GoogleProfiles ==
    [id : {Str(<<"7">>)}, displayName : {Str(<<"A", " ", "B">>)},
     emails : {<<>>, <<EmailUpper>>, <<EmailThird>>}, photos : {<<Photo>>}]

\* The profiles of two Google accounts, with and without an address and a
\* photo, and the second one under a display name with no space and under
\* one with a space first.
LinkProfiles ==
    [id : {Str(<<"7">>), Str(<<"8">>)}, displayName : {Str(<<"A", " ", "B">>)},
     emails : {<<>>, <<EmailUpper>>, <<EmailThird>>}, photos : {<<>>, <<Photo>>}]
    \cup [id : {Str(<<"8">>)}, displayName : {Ann, Str(<<" ", "A", "l", " ">>)},
          emails : {<<EmailThird>>}, photos : {<<>>}]

\* A Google profile with neither a display name nor a photo.
BareProfile ==
    [id |-> Str(<<"7">>), displayName |-> UNDEF, emails |-> <<EmailOther>>,
     photos |-> <<>>]

UNSET == [firstName |-> UNDEF, lastName |-> UNDEF, birthdate |-> UNDEF,
          profession |-> UNDEF, name |-> UNDEF, image |-> UNDEF]

Year1990 == Str(<<"1", "9", "9", "0">>)
Al == Str(<<" ", "A", "l", " ">>)
Bo == Str(<<"B", "o">>)
Dev == Str(<<"D", "e", "v">>)
Url == Str(<<" ", "u">>)

\* The bodies updateProfile is sent: each field alone, the values that clear
\* or are skipped, a value trim() cannot take, two fields, and no field.
ProfileBodies ==
    {UNSET,
     [UNSET EXCEPT !.firstName = Al], [UNSET EXCEPT !.firstName = NULL],
     [UNSET EXCEPT !.lastName = Bo], [UNSET EXCEPT !.profession = Dev],
     [UNSET EXCEPT !.name = Bo],
     [UNSET EXCEPT !.birthdate = Year1990], [UNSET EXCEPT !.birthdate = NULL],
     [UNSET EXCEPT !.birthdate = Str(<<>>)], [UNSET EXCEPT !.birthdate = Bo],
     [UNSET EXCEPT !.image = Url], [UNSET EXCEPT !.image = NULL],
     [UNSET EXCEPT !.image = Str(<<>>)],
     [UNSET EXCEPT !.lastName = Bo, !.birthdate = Str(<<>>)],
     [UNSET EXCEPT !.firstName = Al, !.profession = Dev, !.image = Url]}

\* The acting users of the profile and mentor requests: the first account,
\* and an id no row has.
ActingIds == {1, MaxUsers + 1}

UpdateProfileRequests ==
    [errors : {FALSE}, userId : ActingIds, body : ProfileBodies]
    \cup [errors : {TRUE}, userId : {1}, body : {[UNSET EXCEPT !.name = Str(<<"x">>)]}]

NOFIELDS == [title |-> UNDEF, bio |-> UNDEF, image |-> UNDEF,
             yearsOfExperience |-> UNDEF, timezone |-> UNDEF, hourlyRate |-> UNDEF,
             currency |-> UNDEF, languages |-> UNDEF, isApproved |-> UNDEF,
             isActive |-> UNDEF]

Coach == Str(<<" ", "C", "o", "a", "c", "h">>)
Guide == Str(<<"G", "u", "i", "d", "e">>)
Bio == Str(<<"b", "i", "o", " ">>)
Utc == Str(<<"U", "T", "C">>)
Usd == Str(<<"U", "S", "D">>)
English == [t |-> "array",
            v |-> <<[code |-> Str(<<"e", "n">>),
                     language |-> Str(<<"E", "n", "g", "l", "i", "s", "h">>),
                     level |-> Str(<<"C", "2">>)]>>]

\* The mentor fields of a full sign-up.
FullFields ==
    [title |-> Coach, bio |-> Bio, image |-> Url, yearsOfExperience |-> Num(5),
     timezone |-> Utc, hourlyRate |-> Str(<<"4", "0">>), currency |-> Usd,
     languages |-> English, isApproved |-> UNDEF, isActive |-> Bool(TRUE)]

\* The sign-ups createMentor is sent: a full one, one with the title only
\* under the first one's address in another case, and one without a title.
CreateMentorRequests ==
    {[body |-> [email |-> EmailUpper, password |-> Passw0rd, name |-> Ann] @@ FullFields],
     [body |-> [email |-> EmailLower, password |-> Secret99, name |-> UNDEF]
               @@ [NOFIELDS EXCEPT !.title = Guide]],
     [body |-> [email |-> EmailOther, password |-> Passw0rd, name |-> UNDEF]
               @@ [NOFIELDS EXCEPT !.title = Guide]],
     [body |-> [email |-> EmailOther, password |-> Passw0rd, name |-> UNDEF]
               @@ NOFIELDS]}

\* The bodies updateMentor is sent.
MentorBodies ==
    {NOFIELDS,
     [NOFIELDS EXCEPT !.title = Guide, !.isApproved = Bool(TRUE)],
     [NOFIELDS EXCEPT !.bio = NULL, !.image = Str(<<>>)],
     [NOFIELDS EXCEPT !.image = Str(<<" ">>)],
     [NOFIELDS EXCEPT !.yearsOfExperience = Num(9), !.hourlyRate = Num(25)],
     [NOFIELDS EXCEPT !.timezone = Utc, !.currency = Usd, !.languages = English],
     [NOFIELDS EXCEPT !.isActive = Bool(FALSE)],
     [NOFIELDS EXCEPT !.title = Bo]}

\* req.params.id: the first mentor, and an id no row has.
UpdateMentorRequests ==
    [id : {1, MaxUsers + 1}, userId : 1..MaxUsers, body : MentorBodies]

\* Language lists: a code in upper case under a name in another language,
\* and two entries of which the second is English.
Loud == [t |-> "array",
         v |-> <<[code |-> Str(<<"E", "N">>),
                  language |-> Str(<<"A", "n", "g", "l", "a", "i", "s">>),
                  level |-> Str(<<"B", "1">>)]>>]
Both == [t |-> "array",
         v |-> <<[code |-> Str(<<"f", "r">>),
                  language |-> Str(<<"F", "r", "e", "n", "c", "h">>),
                  level |-> Str(<<"C", "1">>)]>> \o English.v]

\* The sign-ups behind the listing: mentors with each language list and one
\* with none.
ListedSignUps ==
    {[body |-> [email |-> EmailUpper, password |-> Passw0rd, name |-> Ann] @@ FullFields],
     [body |-> [email |-> EmailOther, password |-> Passw0rd, name |-> UNDEF]
               @@ [NOFIELDS EXCEPT !.title = Guide, !.languages = Loud]],
     [body |-> [email |-> EmailThird, password |-> Passw0rd, name |-> UNDEF]
               @@ [NOFIELDS EXCEPT !.title = Guide, !.languages = Both]],
     [body |-> [email |-> EmailThird, password |-> Passw0rd, name |-> UNDEF]
               @@ [NOFIELDS EXCEPT !.title = Guide]]}

\* The owner of the first mentor switching it off and on.
ActiveSwitches ==
    [id : {1}, userId : {1},
     body : {[NOFIELDS EXCEPT !.isActive = Bool(FALSE)],
             [NOFIELDS EXCEPT !.isActive = Bool(TRUE)]}]

\* The first account setting and clearing its image.
ImageEdits ==
    [errors : {FALSE}, userId : {1},
     body : {[UNSET EXCEPT !.image = Url], [UNSET EXCEPT !.image = NULL]}]

\* A sign-up with the title only.
GuideSignUp ==
    [body |-> [email |-> EmailOther, password |-> Passw0rd, name |-> UNDEF]
              @@ [NOFIELDS EXCEPT !.title = Guide]]

\* A sign-up that asks to be approved.
ApprovedSignUp ==
    [body |-> [email |-> EmailUpper, password |-> Passw0rd, name |-> UNDEF]
              @@ [NOFIELDS EXCEPT !.title = Coach, !.image = Url,
                                  !.isApproved = Bool(TRUE)]]

\* A sign-up with a free first hour and no experience yet.
ZeroSignUp ==
    [body |-> [email |-> EmailUpper, password |-> Passw0rd, name |-> UNDEF]
              @@ [NOFIELDS EXCEPT !.title = Coach, !.hourlyRate = Num(0),
                                  !.yearsOfExperience = Num(0)]]

\* A sign-up with a rate and the experience as strings of digits.
RatedSignUp ==
    [body |-> [email |-> EmailOther, password |-> Passw0rd, name |-> UNDEF]
              @@ [NOFIELDS EXCEPT !.title = Guide, !.hourlyRate = Str(<<"4", "0">>),
                                  !.yearsOfExperience = Str(<<"0">>)]]

\* The rate and the experience of the first two mentors set by their owners:
\* to zero, to other numbers, and to null.
RateUpdates ==
    [id : {1, 2}, userId : {1, 2},
     body : {[NOFIELDS EXCEPT !.hourlyRate = Num(0)],
             [NOFIELDS EXCEPT !.yearsOfExperience = Num(0)],
             [NOFIELDS EXCEPT !.hourlyRate = Num(25), !.yearsOfExperience = Num(9)],
             [NOFIELDS EXCEPT !.hourlyRate = Str(<<"0">>)],
             [NOFIELDS EXCEPT !.hourlyRate = NULL, !.yearsOfExperience = NULL]}]

\* The first account changing its password.
SecretChange ==
    [errors |-> FALSE, userId |-> 1, currentPassword |-> Passw0rd,
     newPassword |-> Secret99]

\* The requests that race: two registrations and a sign-up under one address
\* in two spellings, and two Google accounts each under that address and
\* under another.
RaceRegisters ==
    [errors : {FALSE}, email : {EmailLower, EmailUpper}, password : {Passw0rd},
     name : {UNDEF}]
RaceSignUp ==
    [body |-> [email |-> EmailUpper, password |-> Passw0rd, name |-> UNDEF]
              @@ [NOFIELDS EXCEPT !.title = Guide]]
RaceProfiles ==
    [id : {Str(<<"7">>), Str(<<"8">>)}, displayName : {Ann},
     emails : {<<EmailUpper>>, <<EmailOther>>}, photos : {<<>>}]

NOFILTER == [isApproved |-> UNDEF, isActive |-> UNDEF, language |-> UNDEF,
             minRate |-> UNDEF, maxRate |-> UNDEF, search |-> UNDEF]

\* The listing without a filter.
EveryMentor == [query |-> NOFILTER]

\* The first mentor given a new title by each user.
Retitles ==
    [id : {1}, userId : 1..MaxUsers, body : {[NOFIELDS EXCEPT !.title = Bo]}]

\* The queries of getAllMentors: each language alone and with the active
\* flag, and the other filters together.
ListQueries ==
    [query : {[NOFILTER EXCEPT !.language = l, !.isActive = a] :
                l \in {UNDEF, Str(<<>>), Str(<<"e", "n">>), Str(<<"E", "N">>),
                       Str(<<"E", "N", "G", "L", "I", "S", "H">>), Str(<<"f", "r">>)},
                a \in {UNDEF, TrueString}}
             \cup {[NOFILTER EXCEPT !.isApproved = Str(<<"f", "a", "l", "s", "e">>),
                                    !.minRate = Str(<<"3", "0">>),
                                    !.maxRate = Str(<<"5", "0">>),
                                    !.search = Str(<<"O", "A", "C">>),
                                    !.language = Str(<<"e", "n">>)],
                   [NOFILTER EXCEPT !.minRate = Str(<<"5", "0">>)],
                   [NOFILTER EXCEPT !.search = Str(<<"B", "I", "O">>)]}]

-----------------------------------------------------------------------------
(* Time *)

\* The instants the clock shows: the start, and the last valid and the first
\* expired day of a token issued at the start.
Instants == {0, AccessDays - 1, AccessDays, RefreshDays - 1, RefreshDays}

Tick ==
    /\ \E t \in Instants : t > now /\ now' = t
    /\ UNCHANGED <<users, mentors, nextUserId, nextMentorId, env, inflight>>
    /\ last' = Response("tick", NoData, 0, "", NoData)

\* The token as issued at instant t instead of now.
IssuedAt(token, t) == [token EXCEPT !.exp = (token.exp - now) + t]

TokenSubjects == {1, 2}

\* What a client can present now: nothing, a string that is no token, a token
\* the service issued at an earlier instant, or one signed with another key.
RefreshTokenRequests ==
    [refreshToken :
        {UNDEF, Str(<<>>), Str(<<"x">>)}
        \cup {IssuedAt(generateToken(u), t) : u \in TokenSubjects,
                                              t \in {i \in Instants : i <= now}}
        \cup {IssuedAt(generateRefreshToken(u), t) : u \in TokenSubjects,
                                                     t \in {i \in Instants : i <= now}}
        \cup {[generateRefreshToken(u) EXCEPT !.key = "forged"] : u \in TokenSubjects}]

-----------------------------------------------------------------------------
(* Specifications *)

Init ==
    /\ users = NoRows
    /\ mentors = NoRows
    /\ nextUserId = 1
    /\ nextMentorId = 1
    /\ now = 0
    /\ env \in [refreshSecretSet : BOOLEAN]
    /\ last = Response("none", NoData, 0, "", NoData)
    /\ inflight = [c \in Clients |-> Idle]

Next ==
    \/ \E req \in RegisterRequests : Register(req, "salt1")
    \/ \E req \in LoginRequests : Login(req)
    \/ \E req \in ChangePasswordRequests, salt \in Salts : ChangePassword(req, salt)
    \/ \E profile \in GoogleProfiles : GoogleVerify(profile)

Spec == Init /\ [][Next]_vars

\* Tokens over time: one account, every token a client can hold, the clock.
NextToken ==
    \/ \E req \in {AnnRegisters} : Register(req, "salt1")
    \/ \E req \in [errors : {FALSE}, email : {EmailLower}, password : Passwords] :
            Login(req)
    \/ \E req \in RefreshTokenRequests : RefreshToken(req)
    \/ Tick

SpecToken == Init /\ [][NextToken]_vars

\* Profiles: a registered account and a Google account, the first of the two
\* edited.
NextProfile ==
    \/ \E req \in {AnnRegisters} : Register(req, "salt1")
    \/ \E profile \in {BareProfile} : GoogleVerify(profile)
    \/ \E req \in UpdateProfileRequests : UpdateProfile(req)
    \/ \E req \in [userId : ActingIds] : DeleteImage(req)
    \/ \E req \in [userId : ActingIds] : GetProfile(req)

SpecProfile == Init /\ [][NextProfile]_vars

\* Mentors: sign-ups with a profile, a plain account, and the owner's requests.
NextMentor ==
    \/ \E req \in {PlainRegisters} : Register(req, "salt1")
    \/ \E req \in CreateMentorRequests : CreateMentor(req, "salt1")
    \/ \E req \in UpdateMentorRequests : UpdateMentor(req)
    \/ \E req \in [id : {1, MaxUsers + 1}, userId : 1..MaxUsers] : DeleteMentor(req)
    \/ \E req \in [userId : 1..MaxUsers] : DeleteMentorImage(req)

SpecMentor == Init /\ [][NextMentor]_vars

\* Google sign-in: a registered account whose image is set and cleared, and
\* the sign-ins of two Google accounts over time.
NextGoogle ==
    \/ \E req \in {AnnRegisters} : Register(req, "salt1")
    \/ \E req \in ImageEdits : UpdateProfile(req)
    \/ \E profile \in LinkProfiles : GoogleVerify(profile)
    \/ Tick /\ now' = AccessDays - 1

SpecGoogle == Init /\ [][NextGoogle]_vars

\* The directory: sign-ups with different language lists, the first mentor
\* switched off and on by its owner, and the listing.
NextList ==
    \/ \E req \in ListedSignUps : CreateMentor(req, "salt1")
    \/ \E req \in ActiveSwitches : UpdateMentor(req)
    \/ \E req \in ListQueries : GetAllMentors(req)

SpecList == Init /\ [][NextList]_vars

\* Every handler that answers with account or mentor data: an account, a
\* sign-up with a mentor profile, and the requests of both.
NextLeak ==
    \/ \E req \in {AnnRegisters} : Register(req, "salt1")
    \/ \E req \in [errors : {FALSE}, email : {EmailLower, EmailOther},
                    password : Passwords] : Login(req)
    \/ \E req \in [userId : ActingIds] : GetProfile(req)
    \/ \E req \in ImageEdits : UpdateProfile(req)
    \/ \E req \in [userId : ActingIds] : DeleteImage(req)
    \/ \E req \in {SecretChange} : ChangePassword(req, "salt2")
    \/ \E req \in RefreshTokenRequests : RefreshToken(req)
    \/ \E req \in {GuideSignUp} : CreateMentor(req, "salt1")
    \/ \E req \in {EveryMentor} : GetAllMentors(req)
    \/ \E req \in [id : {1, MaxUsers + 1}] : GetMentorById(req)
    \/ \E req \in [userId : 1..MaxUsers] : GetMentorByUserId(req)
    \/ \E req \in [userId : 1..MaxUsers] : GetMyMentorProfile(req)
    \/ \E req \in Retitles : UpdateMentor(req)

SpecLeak == Init /\ [][NextLeak]_vars

\* Approval: sign-ups that do and do not ask to be approved, and every
\* request of the mentor controller that writes.
NextApproval ==
    \/ \E req \in {GuideSignUp, ApprovedSignUp} : CreateMentor(req, "salt1")
    \/ \E req \in UpdateMentorRequests : UpdateMentor(req)
    \/ \E req \in [id : {1, MaxUsers + 1}, userId : 1..MaxUsers] : DeleteMentor(req)
    \/ \E req \in [userId : 1..MaxUsers] : DeleteMentorImage(req)

SpecApproval == Init /\ [][NextApproval]_vars

\* Rates: sign-ups and updates whose rate and experience are zero, other
\* numbers, strings of digits, null and absent.
NextRate ==
    \/ \E req \in {ZeroSignUp, RatedSignUp, GuideSignUp} : CreateMentor(req, "salt1")
    \/ \E req \in RateUpdates : UpdateMentor(req)

SpecRate == Init /\ [][NextRate]_vars

\* Tokens replayed: an account that logs in, changes its password and edits
\* its profile while refresh tokens of every age are presented.
NextReplay ==
    \/ \E req \in {AnnRegisters} : Register(req, "salt1")
    \/ \E req \in AnnLogins : Login(req)
    \/ \E req \in {SecretChange} : ChangePassword(req, "salt2")
    \/ \E req \in ImageEdits : UpdateProfile(req)
    \/ \E req \in RefreshTokenRequests : RefreshToken(req)
    \/ Tick

SpecReplay == Init /\ [][NextReplay]_vars

\* A store that can fail a write: an account, its logins with the update of
\* lastActive served or failed, and the clock.
NextFault ==
    \/ \E req \in {AnnRegisters} : Register(req, "salt1")
    \/ \E req \in AnnLogins, updateThrows \in BOOLEAN : LoginAttempt(req, updateThrows)
    \/ Tick

SpecFault == Init /\ [][NextFault]_vars

\* Two clients whose requests interleave at every store call.
NextRace ==
    \/ \E c \in Clients, req \in RaceRegisters : RegisterCheck(c, req)
    \/ \E c \in Clients : RegisterInsert(c, "salt1")
    \/ \E c \in Clients, req \in {RaceSignUp} : CreateMentorCheck(c, req)
    \/ \E c \in Clients : CreateMentorInsertUser(c, "salt1")
    \/ \E c \in Clients : CreateMentorInsertMentor(c)
    \/ \E c \in Clients, profile \in RaceProfiles : GoogleFindById(c, profile)
    \/ \E c \in Clients : GoogleTouch(c)
    \/ \E c \in Clients : GoogleFindByEmail(c)
    \/ \E c \in Clients : GoogleLink(c)
    \/ \E c \in Clients : GoogleCreate(c)

SpecRace == Init /\ [][NextRace]_vars

-----------------------------------------------------------------------------
(* Properties of the user controller *)

\* data holds an access and a refresh token that verify now, with subject id.
IssuedFor(data, id) ==
    /\ JwtVerify(data.token, JWT_SECRET).error = ""
    /\ data.token.payload.userId = id
    /\ JwtVerify(data.refreshToken, RefreshSecret).error = ""
    /\ data.refreshToken.payload.userId = id

\* The stored hash of user is a hash of password p.
PasswordIs(user, p) == user.password.t = "hash" /\ user.password.of = p.v

\* The users that hold email e, compared in lower case.
Holders(e) == {i \in UserIds : users[i].email = ToLowerCase(e)}

\* C1: a Login that follows a successful Register, with the same password and
\* the same email in any letter case, is answered 200 with an access and a
\* refresh token whose subject is the id of the user that Register created.
C1_RegisterThenLogin ==
    [][(/\ last.op = "register" /\ last.status = 201
        /\ last'.op = "login" /\ ~last'.req.errors
        /\ ToLowerCase(last'.req.email) = ToLowerCase(last.req.email)
        /\ last'.req.password = last.req.password)
       => (/\ last'.status = 200
           /\ IssuedFor(last'.data, last.data.user.id)
           /\ last'.data.user.id = last.data.user.id)]_vars

\* A registered account (stored in lower case) logged in under its address in
\* upper case.
C1_Witness ==
    /\ last.op = "login" /\ last.status = 200
    /\ last.req.email = EmailUpper
    /\ users[last.data.user.id].email = EmailLower
    /\ users[last.data.user.id].googleId = NULL
    /\ PasswordIs(users[last.data.user.id], last.req.password)
    /\ IssuedFor(last.data, last.data.user.id)

\* C2: a Register whose email, in lower case, is the stored email of a user is
\* answered 409 without tokens, and the users table is left as it was.
C2_DuplicateRegisterConflict ==
    [][(/\ last'.op = "register" /\ ~last'.req.errors
        /\ Holders(last'.req.email) # {})
       => (/\ last'.status = 409 /\ last'.data = NoData
           /\ users' = users /\ nextUserId' = nextUserId)]_vars

\* The address of a stored account registered again in another letter case.
C2_Witness ==
    /\ last.op = "register" /\ last.status = 409
    /\ last.req.email = EmailUpper
    /\ \E i \in UserIds : users[i].email = EmailLower
    /\ \A i \in UserIds : users[i].email # EmailUpper

\* C3: a Login with an email some user holds and a password that is not that
\* user's, and a Login with an email no user holds, are both answered 401
\* with the same body, and neither changes a stored user.
C3_LoginFailuresIndistinguishable ==
    [][(/\ last'.op = "login" /\ ~last'.req.errors
        /\ \A i \in Holders(last'.req.email) : ~PasswordIs(users[i], last'.req.password))
       => (/\ last'.status = 401
           /\ last'.message = "Invalid email or password"
           /\ last'.data = NoData
           /\ users' = users)]_vars

\* The access tokens generateToken has produced for a user at some instant.
AccessTokens == {IssuedAt(generateToken(u), t) : u \in TokenSubjects, t \in Instants}

\* C4: refreshToken given an access token answers 403 and returns no tokens,
\* whether or not the refresh secret is set apart from the access secret.
C4_AccessTokenNotRedeemable ==
    (last.op = "refreshToken" /\ last.req.refreshToken \in AccessTokens)
        => (last.status = 403 /\ last.data = NoData)

\* An access token of a stored user, not expired, presented where the refresh
\* secret defaults to the access secret: only its kind turns it away.
C4_Witness ==
    /\ last.op = "refreshToken" /\ last.status = 403
    /\ last.req.refreshToken \in AccessTokens
    /\ ~env.refreshSecretSet
    /\ JwtVerify(last.req.refreshToken, RefreshSecret).error = ""
    /\ last.req.refreshToken.payload.userId \in UserIds
    /\ last.message = "Invalid refresh token"

\* C5: a Login that follows a successful ChangePassword, with the email of
\* that user, is answered 200 for the new password and 401 for the old one.
C5_ChangePasswordThenLogin ==
    [][(/\ last.op = "changePassword" /\ last.status = 200
        /\ last'.op = "login" /\ ~last'.req.errors
        /\ last.req.userId \in Holders(last'.req.email))
       => (/\ (last'.req.password = last.req.newPassword)
                => (/\ last'.status = 200
                    /\ IssuedFor(last'.data, last.req.userId))
           /\ (last'.req.password = last.req.currentPassword)
                => last'.status = 401)]_vars

\* A password changed (registration salts with "salt1" only) and the account
\* logged in with the new one.
C5_Witness ==
    /\ last.op = "login" /\ last.status = 200
    /\ users[last.data.user.id].password.salt = "salt2"
    /\ PasswordIs(users[last.data.user.id], last.req.password)
    /\ users[last.data.user.id].googleId = NULL

\* C6: changePassword answers 404 when the user has no row, else 401 when the
\* current password is not the stored one, else 400 when the new password is
\* the stored one, and in each of the three the users table is left as it was.
C6_ChangePasswordOrder ==
    [][(last'.op = "changePassword" /\ ~last'.req.errors)
       => (IF last'.req.userId \notin UserIds
           THEN last'.status = 404 /\ users' = users
           ELSE IF ~PasswordIs(users[last'.req.userId], last'.req.currentPassword)
           THEN last'.status = 401 /\ users' = users
           ELSE IF PasswordIs(users[last'.req.userId], last'.req.newPassword)
           THEN last'.status = 400 /\ users' = users
           ELSE TRUE)]_vars

\* C7: updateProfile leaves every profile field the body does not supply, and
\* the id, email, password hash and googleId of every user, as they were.
C7_UpdateProfileFrame ==
    [][(last'.op = "updateProfile")
       => (/\ DOMAIN users' = DOMAIN users
           /\ \A i \in UserIds :
                /\ \A f \in {"id", "email", "password", "googleId", "lastActive"} :
                        users'[i][f] = users[i][f]
                /\ \A f \in ProfileFields :
                        (i # last'.req.userId \/ last'.req.body[f] = UNDEF)
                            => users'[i][f] = users[i][f])]_vars

\* A body with the birthdate only, applied to a profile whose other fields
\* are set: the birthdate is the one sent, the others are still there.
C7_Witness ==
    /\ last.op = "updateProfile" /\ last.status = 200
    /\ last.req.body = [UNSET EXCEPT !.birthdate = Year1990]
    /\ users[last.req.userId].birthdate = [t |-> "date", year |-> 1990]
    /\ users[last.req.userId].firstName = Trim(Al)
    /\ users[last.req.userId].profession = Dev
    /\ users[last.req.userId].image = Trim(Url)
    /\ users[last.req.userId].name = Ann
    /\ users[last.req.userId].password # NULL

\* C13: a Login for a user whose password hash is null is answered 401 with
\* the body of a wrong password, whatever the password, and writes nothing
\* (last-active included).
C13_NullHashLoginUnauthorized ==
    [][(/\ last'.op = "login" /\ ~last'.req.errors
        /\ \E i \in Holders(last'.req.email) : users[i].password = NULL)
       => (/\ last'.status = 401
           /\ last'.message = "Invalid email or password"
           /\ last'.data = NoData
           /\ users' = users)]_vars

\* The token is a refresh token the service signed, not expired now.
LiveRefreshToken(tok) ==
    /\ tok.t = "jwt" /\ tok.key = RefreshSecret
    /\ now < tok.exp
    /\ tok.payload.type = Str(<<"r", "e", "f", "r", "e", "s", "h">>)

\* C14: refreshToken answers 400 when no token is supplied, else 403 when the
\* token is badly signed, expired or not of the refresh kind, else 401 when
\* its subject has no row; tokens are issued in none of these cases.
C14_RefreshFailureMapping ==
    (last.op = "refreshToken")
        => (IF last.req.refreshToken \in {UNDEF, NULL, Str(<<>>)}
            THEN last.status = 400 /\ last.data = NoData
            ELSE IF ~LiveRefreshToken(last.req.refreshToken)
            THEN last.status = 403 /\ last.data = NoData
            ELSE IF last.req.refreshToken.payload.userId \notin UserIds
            THEN last.status = 401 /\ last.data = NoData
            ELSE last.status = 200)

\* A refresh token that verifies, for a subject that has no row, presented
\* while another user exists.
C14_Witness ==
    /\ last.op = "refreshToken" /\ last.status = 401
    /\ LiveRefreshToken(last.req.refreshToken)
    /\ last.req.refreshToken.payload.userId \notin UserIds
    /\ UserIds # {}
    /\ now > 0

\* C26: a login whose password verifies answers 200 with both tokens, and
\* sets lastActive of the user to the current time or, when the store fails
\* that write, leaves the users as they were.
C26_LastActiveBestEffort ==
    [][(/\ last'.op = "login" /\ ~last'.req.errors
        /\ \E i \in Holders(last'.req.email) : PasswordIs(users[i], last'.req.password))
       => \A i \in Holders(last'.req.email) :
             /\ last'.status = 200
             /\ IssuedFor(last'.data, i)
             /\ \/ users' = [users EXCEPT ![i].lastActive = Num(now)]
                \/ users' = users]_vars

\* C27: a refresh token that the service signed, not expired, whose subject
\* is a user, is redeemed with 200 and a pair issued now for the same subject
\* every time it is presented: after it was redeemed, after newer pairs were
\* issued, and after changePassword or updateProfile of the user.  Redeeming
\* records nothing: the store is as it was.
C27_NeverRevoked ==
    [][(/\ last'.op = "refreshToken"
        /\ LiveRefreshToken(last'.req.refreshToken)
        /\ last'.req.refreshToken.payload.userId \in UserIds)
       => LET id == last'.req.refreshToken.payload.userId
          IN /\ last'.status = 200
             /\ IssuedFor(last'.data, id)
             /\ last'.data.refreshToken.exp = now + RefreshDays
             /\ last'.data.token.exp = now + AccessDays
             /\ users' = users /\ mentors' = mentors]_vars

\* A refresh token issued at the start was redeemed at a later instant, after
\* the user changed the password and set an image.
C27_Witness ==
    /\ last.op = "refreshToken"
    /\ last.status = 200
    /\ now > 0
    /\ last.req.refreshToken.exp = RefreshDays
    /\ LET user == users[last.req.refreshToken.payload.userId]
       IN /\ user.password.salt = "salt2"
          /\ user.image # NULL
          /\ user.lastActive # NULL

-----------------------------------------------------------------------------
(* Properties of the profile image *)

\* The users with the image of user id cleared and nothing else changed.
ImageCleared(id) == [users EXCEPT ![id].image = NULL]

\* The step is a request of an existing user, handled by op.
StepOf(op) == last'.op = op /\ last'.req.userId \in UserIds

-----------------------------------------------------------------------------
(* Properties of the mentor controller *)

\* The body of the request passes updateMentorValidation.
ValidUpdate(req) == UpdateMentorValid(MentorSanitize(req.body))

\* C8: a valid updateMentor of an id no mentor has is answered 404, whoever
\* asks; of a mentor another user owns, 403; the mentors are left as they were.
C8_UpdateMentorGuards ==
    [][(last'.op = "updateMentor" /\ ValidUpdate(last'.req))
       => (/\ (last'.req.id \notin MentorIds)
                => (last'.status = 404 /\ mentors' = mentors)
           /\ (/\ last'.req.id \in MentorIds
               /\ mentors[last'.req.id].userId # last'.req.userId)
                => (last'.status = 403 /\ mentors' = mentors))]_vars

\* A user who is not the owner turned away with the mentor as it was.
C8_Witness ==
    /\ last.op = "updateMentor" /\ last.status = 403
    /\ last.req.id \in MentorIds
    /\ last.req.userId \in UserIds
    /\ mentors[last.req.id].userId # last.req.userId
    /\ last.req.body.title = Guide
    /\ mentors[last.req.id].title = Trim(Coach)

\* The owner of no mentor asking for a mentor that does not exist while
\* another does: 404, not 403.
C8_WitnessNotFound ==
    /\ last.op = "updateMentor" /\ last.status = 404
    /\ last.req.id \notin MentorIds
    /\ MentorIds # {}
    /\ MentorByUserId(last.req.userId) = {}

\* C9: updateMentor by the owner leaves every field the body does not supply
\* as it was, and id, userId and isApproved whatever the body supplies; no
\* other mentor and no user changes.
C9_UpdateMentorFrame ==
    [][(/\ last'.op = "updateMentor"
        /\ last'.req.id \in MentorIds
        /\ mentors[last'.req.id].userId = last'.req.userId)
       => (/\ DOMAIN mentors' = DOMAIN mentors
           /\ users' = users
           /\ \A m \in MentorIds : \A f \in DOMAIN mentors[m] :
                (\/ m # last'.req.id
                 \/ f \notin MentorWritable
                 \/ last'.req.body[f] = UNDEF)
                    => mentors'[m][f] = mentors[m][f])]_vars

\* The owner sends a title and isApproved = true: the title is the one sent,
\* isApproved is still false, the bio is still there.
C9_Witness ==
    /\ last.op = "updateMentor" /\ last.status = 200
    /\ last.req.body.isApproved = Bool(TRUE)
    /\ last.req.body.title = Guide
    /\ mentors[last.req.id].userId = last.req.userId
    /\ mentors[last.req.id].title = Guide
    /\ mentors[last.req.id].isApproved = Bool(FALSE)
    /\ mentors[last.req.id].bio = Trim(Bio)

\* The body of the request passes createMentorValidation.
ValidCreate(req) == CreateMentorValid(req.body, MentorSanitize(req.body))

C18_MentorOwners ==
    /\ \A m \in MentorIds : mentors[m].userId \in UserIds
    /\ \A m1, m2 \in MentorIds : mentors[m1].userId = mentors[m2].userId => m1 = m2

\* Two mentors of two owners, one of them just updated by its owner.
C18_Witness ==
    /\ Cardinality(MentorIds) = 2
    /\ last.op = "updateMentor" /\ last.status = 200
    /\ Cardinality({mentors[m].userId : m \in MentorIds}) = 2

\* The body supplies no field, or the birthdate alone as null or "".
NothingToWrite(body) ==
    /\ \A f \in ProfileFields \ {"birthdate"} : body[f] = UNDEF
    /\ body.birthdate \in {UNDEF, NULL, Str(<<>>)}

\* C25: updateProfile of a body that passed validation and supplies no
\* field, or only a birthdate that is null or "", answers 400 "No fields to
\* update" and writes nothing.
C25_NothingToUpdate ==
    [][(/\ last'.op = "updateProfile"
        /\ ~last'.req.errors
        /\ NothingToWrite(last'.req.body))
       => /\ last'.status = 400
          /\ last'.message = "No fields to update"
          /\ users' = users]_vars

\* An empty birthdate alone was refused for a user whose birthdate is set.
C25_Witness ==
    /\ last.op = "updateProfile"
    /\ last.status = 400
    /\ last.req.body = [UNSET EXCEPT !.birthdate = Str(<<>>)]
    /\ last.req.userId \in UserIds
    /\ users[last.req.userId].birthdate # NULL

\* No field at all was refused.
C25_WitnessEmpty ==
    /\ last.op = "updateProfile"
    /\ last.status = 400
    /\ last.req.body = UNSET
    /\ last.req.userId \in UserIds

-----------------------------------------------------------------------------
(* Properties of the mentor image and of deleteMentor *)

\* The mentors whose owner is user u.
OwnMentors(u) == {m \in MentorIds : mentors[m].userId = u}

\* C23: deleteMentorImage of a user that owns no mentor answers 404; of a
\* user whose mentor has no image it answers 400; otherwise it answers 200
\* and sets the image of that user's mentor to NULL and nothing else.  No
\* failure writes, and the request repeated at once after a 200 answers 400.
C23_DeleteMentorImage ==
    [][last'.op = "deleteMentorImage"
       => LET own == OwnMentors(last'.req.userId)
          IN /\ users' = users
             /\ own = {} => last'.status = 404 /\ mentors' = mentors
             /\ \A m \in own :
                   IF mentors[m].image = NULL
                   THEN last'.status = 400 /\ mentors' = mentors
                   ELSE /\ last'.status = 200
                        /\ mentors' = [mentors EXCEPT ![m].image = NULL]
             /\ (last.op = "deleteMentorImage" /\ last.status = 200
                    /\ last.req = last'.req)
                   => last'.status = 400]_vars

\* The image of one of two mentors was deleted by its owner.
C23_Witness ==
    /\ last.op = "deleteMentorImage"
    /\ last.status = 200
    /\ Cardinality(MentorIds) = 2
    /\ \A m \in OwnMentors(last.req.userId) : mentors[m].image = NULL

\* C24: deleteMentor answers 404 for an id no mentor has and 403 for a caller
\* that is not the owner, the mentors unchanged in both cases; for the owner
\* it answers 200 and removes that mentor row and no other.  Every user row,
\* the owner's included, stays as it was, and no step of any handler removes
\* a user.
C24_DeleteMentor ==
    [][/\ UserIds \subseteq DOMAIN users'
       /\ last'.op = "deleteMentor"
            => LET id == last'.req.id
               IN /\ users' = users
                  /\ IF id \notin MentorIds
                     THEN last'.status = 404 /\ mentors' = mentors
                     ELSE IF mentors[id].userId # last'.req.userId
                     THEN last'.status = 403 /\ mentors' = mentors
                     ELSE /\ last'.status = 200
                          /\ DOMAIN mentors' = MentorIds \ {id}
                          /\ \A m \in DOMAIN mentors' : mentors'[m] = mentors[m]]_vars

\* The owner deleted one of two mentors and is still a user.
C24_Witness ==
    /\ last.op = "deleteMentor"
    /\ last.status = 200
    /\ last.req.id \notin MentorIds
    /\ Cardinality(MentorIds) = 1
    /\ last.req.userId \in UserIds
    /\ OwnMentors(last.req.userId) = {}

\* A caller that is not the owner was refused.
C24_WitnessForbidden ==
    /\ last.op = "deleteMentor"
    /\ last.status = 403
    /\ last.req.id \in MentorIds

\* C28: after every sequence of createMentor, updateMentor, deleteMentor and
\* deleteMentorImage requests, no mentor is approved.
C28_NeverApproved ==
    \A m \in MentorIds : mentors[m].isApproved = Bool(FALSE)

RateFields == {"hourlyRate", "yearsOfExperience"}

\* The number a supplied value stands for: a number, or a string of digits.
IsSupplied(v) == v.t = "number" \/ IsDigits(v)
ValueOf(v) == IF v.t = "number" THEN v ELSE Num(DigitsValue(v.v))

\* C30: createMentor and updateMentor store a supplied hourlyRate and a
\* supplied yearsOfExperience as the number supplied, zero included; the
\* stored value is NULL only when createMentor was sent no value or when the
\* value sent was null.
C30_ZeroStored ==
    [][\A f \in RateFields :
          /\ (last'.op = "createMentor" /\ last'.status = 201)
                => LET v == last'.req.body[f]
                       stored == mentors'[nextMentorId][f]
                   IN /\ IsSupplied(v) => stored = ValueOf(v)
                      /\ stored = NULL => v \in {UNDEF, NULL}
          /\ (last'.op = "updateMentor" /\ last'.status = 200)
                => LET v == last'.req.body[f]
                       stored == mentors'[last'.req.id][f]
                   IN /\ IsSupplied(v) => stored = ValueOf(v)
                      /\ v = NULL => stored = NULL
                      /\ v = UNDEF => stored = mentors[last'.req.id][f]]_vars

-----------------------------------------------------------------------------
(* Properties of the Google strategy *)

\* The address of a profile, or NULL.
AddressOf(profile) == IF profile.emails = <<>> THEN NULL ELSE profile.emails[1]

\* The photo of a profile, or NULL.
PhotoOf(profile) == IF profile.photos = <<>> THEN NULL ELSE profile.photos[1]

\* The step is a sign-in with a profile that has an address.
SignIn == last'.op = "google" /\ AddressOf(last'.req) # NULL

\* The users that have the Google id of the profile of the step.
Known == {i \in UserIds : users[i].googleId = last'.req.id}

\* C19: a sign-in whose Google id no user has and whose address a user has
\* sets that user's googleId and leaves its password hash, email, names and
\* profession as they were; the image becomes the photo of the profile only
\* when the user had none, and an image that was set is kept.
C19_LinkKeepsImage ==
    [][(SignIn /\ Known = {})
       => \A i \in Holders(AddressOf(last'.req)) :
            /\ users'[i].googleId = last'.req.id
            /\ \A f \in {"id", "email", "password", "name", "firstName", "lastName",
                         "profession"} : users'[i][f] = users[i][f]
            /\ users'[i].image = IF users[i].image = NULL THEN PhotoOf(last'.req)
                                 ELSE users[i].image]_vars

\* The longest prefix of s without a space.
UpToSpace(s) ==
    SubSeq(s, 1, CHOOSE n \in 0..Len(s) :
                    /\ \A j \in 1..n : s[j] # " "
                    /\ (n = Len(s) \/ s[n + 1] = " "))

\* What follows the first space of s.
AfterSpace(s) == SubSeq(s, Len(UpToSpace(s)) + 2, Len(s))

\* A part of a name as a column: NULL when it is empty.
NamePart(s) == IF s = <<>> THEN NULL ELSE Str(s)

\* C20: a sign-in (a) of a Google id some user has changes the last-active
\* time of that user and nothing else, whoever has the address; (b) else of
\* an address some user has links that user; (c) else creates one user with
\* the address in lower case, the Google id, no password hash, and the
\* display name split at its first space.  The user accepted is that user.
C20_SignInOrder ==
    [][SignIn
       => LET profile == last'.req
              email == ToLowerCase(AddressOf(profile))
          IN IF Known # {}
             THEN \E i \in Known :
                    /\ users' = [users EXCEPT ![i].lastActive = Num(now)]
                    /\ last'.data.user.id = i
             ELSE IF Holders(AddressOf(profile)) # {}
             THEN \E i \in Holders(AddressOf(profile)) :
                    /\ DOMAIN users' = DOMAIN users
                    /\ users'[i].googleId = profile.id
                    /\ \A j \in UserIds \ {i} : users'[j] = users[j]
                    /\ last'.data.user.id = i
             ELSE \E n \in DOMAIN users' \ DOMAIN users :
                    /\ DOMAIN users' = DOMAIN users \cup {n}
                    /\ \A j \in UserIds : users'[j] = users[j]
                    /\ users'[n].email = email
                    /\ users'[n].googleId = profile.id
                    /\ users'[n].password = NULL
                    /\ users'[n].firstName = NamePart(UpToSpace(profile.displayName.v))
                    /\ users'[n].lastName = NamePart(AfterSpace(profile.displayName.v))
                    /\ last'.data.user.id = n]_vars

\* A sign-in under a known Google id with the address of another user: the
\* first user is accepted, the other is not linked.
C20_Witness ==
    /\ last.op = "google"
    /\ AddressOf(last.req) # NULL
    /\ \E i, j \in UserIds :
        /\ i # j
        /\ users[i].googleId = last.req.id
        /\ users[j].email = ToLowerCase(AddressOf(last.req))
        /\ users[j].googleId = NULL
        /\ last.data.user.id = i
        /\ users[i].lastActive = Num(now)
        /\ now > 0

-----------------------------------------------------------------------------
(* Properties of the Google strategy without an address *)

\* C21: a sign-in with a profile that has no address ends with the error
\* "No email found in Google profile" and writes nothing: every user row,
\* the row of a user that has the Google id of the profile included, is as
\* it was, and no user is created.
C21_MissingEmail ==
    [][(last'.op = "google" /\ AddressOf(last'.req) = NULL)
       => /\ last'.message = "No email found in Google profile"
          /\ last'.data = NoData
          /\ users' = users
          /\ nextUserId' = nextUserId]_vars

\* The profile without an address carries the Google id of a user whose last
\* sign-in is in the past.
C21_Witness ==
    /\ last.op = "google"
    /\ AddressOf(last.req) = NULL
    /\ \E i \in UserIds : /\ users[i].googleId = last.req.id
                          /\ users[i].lastActive # Num(now)

\* C29: a Google id that a user has is not replaced by another one: no step
\* changes a googleId that is not NULL, a sign-in with a new Google id and the
\* address of that user included.
C29_LinkKept ==
    [][\A i \in UserIds :
          users[i].googleId # NULL => users'[i].googleId = users[i].googleId]_vars

-----------------------------------------------------------------------------
(* Properties of the mentor directory *)

\* The language list of the mentor is a list with an entry whose code is L,
\* or whose language name is L up to letter case.
HasEntry(mentor, L) ==
    /\ mentor.languages # NULL
    /\ mentor.languages.t = "array"
    /\ \E i \in DOMAIN mentor.languages.v :
          \/ mentor.languages.v[i].code = L
          \/ ToLowerCase(mentor.languages.v[i].language) = ToLowerCase(L)

\* The elements of a sequence.
Range(seq) == {seq[i] : i \in DOMAIN seq}

\* C12: getAllMentors with a language L lists exactly the mentors the same
\* query without the language lists and whose language list has an entry
\* with code L or, up to letter case, language name L; each one once.
C12_LanguageFilter ==
    (last.op = "getAllMentors" /\ Truthy(last.req.query.language))
        => LET q == last.req.query
               listed == {last.data.mentors[i].id : i \in DOMAIN last.data.mentors}
               others == Range(MentorsListed([q EXCEPT !.language = UNDEF]))
           IN /\ listed = {m \in others : HasEntry(mentors[m], q.language)}
              /\ Cardinality(listed) = last.data.count

\* "en" asked of two mentors, one with the code EN and one with en: the
\* second alone is listed.
C12_Witness ==
    /\ last.op = "getAllMentors"
    /\ last.req.query.language = Str(<<"e", "n">>)
    /\ Cardinality(MentorIds) = 2
    /\ \E m \in MentorIds : mentors[m].languages = Loud
    /\ last.data.count = 1
    /\ last.data.mentors[1].languages = English

-----------------------------------------------------------------------------
(* Properties of every response *)

\* The fields of a response that hold a bare number or flag, and those that
\* hold a nested object or list.
BareFields == {"id", "userId", "count", "none"}
NestedFields == {"user", "mentor", "mentors"}

\* The object has no password field and none of its values is a hash.
HashFree(object) ==
    /\ "password" \notin DOMAIN object
    /\ \A f \in DOMAIN object \ (BareFields \cup NestedFields) : object[f].t # "hash"

\* The mentor object and the owner joined to it are free of hashes.
MentorHashFree(mentor) ==
    /\ HashFree(mentor)
    /\ "user" \in DOMAIN mentor => HashFree(mentor.user)

\* The handlers the statement names.
AnsweringOps ==
    {"register", "login", "getProfile", "updateProfile", "deleteImage",
     "changePassword", "refreshToken", "createMentor", "getAllMentors",
     "getMentorById", "getMentorByUserId", "getMyMentorProfile", "updateMentor"}

\* C15: no response of register, login, getProfile, updateProfile,
\* deleteImage, changePassword, refreshToken, createMentor or a mentor read
\* or update carries a password field or a password hash, at the top level,
\* in its user, in its mentor or mentors, or in the owner joined to a mentor.
C15_NoHashInResponse ==
    last.op \in AnsweringOps
        => /\ HashFree(last.data)
           /\ "user" \in DOMAIN last.data => HashFree(last.data.user)
           /\ "mentor" \in DOMAIN last.data => MentorHashFree(last.data.mentor)
           /\ "mentors" \in DOMAIN last.data
                => \A i \in DOMAIN last.data.mentors :
                        MentorHashFree(last.data.mentors[i])

\* A mentor read answering with the owner of the mentor, whose row holds a
\* hash.
C15_Witness ==
    /\ last.op \in {"getAllMentors", "getMentorById", "getMyMentorProfile"}
    /\ last.status = 200
    /\ \E m \in MentorIds :
          /\ users[mentors[m].userId].password.t = "hash"
          /\ \/ "mentor" \in DOMAIN last.data /\ last.data.mentor.user.id = mentors[m].userId
             \/ /\ "mentors" \in DOMAIN last.data
                /\ last.data.count > 0
                /\ last.data.mentors[1].user.id = mentors[m].userId

-----------------------------------------------------------------------------
(* Properties of requests in flight together *)

AddressInFlight(c) ==
    IF inflight[c].op = "register" THEN ToLowerCase(inflight[c].req.email)
    ELSE ToLowerCase(MentorSanitize(inflight[c].req.body).email)

\* C16: a register or createMentor request that passed the look-up and ends
\* when a user with its address is stored inserts nothing and answers 409.
C16_LateConflict ==
    [][\A c \in Clients :
          (/\ inflight[c].op \in {"register", "createMentor"}
           /\ inflight'[c] = Idle
           /\ EmailTaken(AddressInFlight(c)))
              => users' = users /\ last'.status = 409]_vars

\* C17: under every interleaving of register, createMentor and the Google
\* sign-in, no two users have the same email, every stored email is in lower
\* case, and no two users have the same Google id.
C17_UniqueUsers ==
    \A i, j \in UserIds :
        /\ users[i].email = ToLowerCase(users[i].email)
        /\ i # j => users[i].email # users[j].email
        /\ (i # j /\ users[i].googleId # NULL) => users[i].googleId # users[j].googleId

\* The store refused the insert of a registration that had passed the
\* look-up, while another user holds a Google id.
C17_Witness ==
    /\ last.op = "register"
    /\ last.status = 500
    /\ EmailTaken(ToLowerCase(last.req.email))
    /\ Cardinality(UserIds) = 2
    /\ \E i \in UserIds : users[i].googleId # NULL

====
